---- MODULE Spec2Model ----
\* A model of the RAG pipeline of mastra-eval-template: vector store gateway
\* (getOrCreateTable, upsertEmbeddings), retrieval engine (retrieve),
\* context assembler (assembleContext), embedding adapters (Ollama, OpenAI)
\* and the chunker (splitIntoChunks).
EXTENDS Integers, Sequences, FiniteSets, Bags, TLC

\* ------------------------------------------------------------------
\* Bounds of the model
\* ------------------------------------------------------------------
MaxCalls == 3        \* upsertEmbeddings calls in one behaviour
MaxBatch == 2        \* tracked records in one upsert batch
MaxRows == 3         \* rows of the table searched by retrieve
MaxK == 3            \* largest result limit k given to retrieve
MaxChunks == 3       \* chunks handed to assembleContext
MaxTexts == 3        \* texts handed to embedBatch
MaxDocLen == 5       \* tokens of the document text given to splitIntoChunks
MaxExpansions == 2   \* queries that expandQuery derives from the query
MaxFiles == 3        \* files discovered by runIngestion
UpsertBatchSize == 2 \* stands for the upsert batchSize = 500, scaled down
OllamaBatchSize == 2 \* stands for the adapter's batchSize = 32, scaled down
OpenAIBatchSize == 2 \* stands for the adapter's batchSize = 256, scaled down

\* ------------------------------------------------------------------
\* Program constants
\* ------------------------------------------------------------------
OptimizeThreshold == 100   \* records.length > 100 triggers table.optimize()

Ids == {"a", "b"}          \* chunk ids of the tracked records
Dims == {2, 3}             \* embedding dimensions in play
TableName == "chunks"
NoDim == 0                 \* embeddingDim undefined (falsy)

\* Scores, distances and thresholds are counted in tenths: Scale stands for 1.0
Scale == 10
Undef == -1                \* a result row without _distance
Dists == {0, 4, 16}        \* cosine distances in tenths, within [0, 2]
MinScores == {0, 5, 9}     \* minScore values in tenths

VARIABLES
  tables,    \* the LanceDB directory: the one table's existence, dimension, rows
  up,        \* the frame of the running upsertEmbeddings call
  got,       \* what the last getOrCreateTable call saw and answered
  prev,      \* the last upsertEmbeddings call that completed before this one
  calls,     \* number of upsertEmbeddings calls started
  ret,       \* the outcome of the last retrieve call
  asm,       \* an assembleContext call: its input, options and result
  emb,       \* an adapter.embedBatch call: adapter, texts, loop position, result
  inflight,  \* the provider calls of the current group, by slot
  ecb,       \* an embedChunksInBatches call: loop position, calls left behind
  ck,        \* a splitIntoChunks call: document, options and result
  fb,        \* a retrieveWithFallback call: arguments, attempts made, outcome
  ing,       \* a runIngestion call: files, what happened to each, summary
  md,        \* an extractMetadataHybrid call: text and result
  wc,        \* a buildWhereClause call: filters and result
  rag,       \* a RAGAgent.query call: input, retrieval, context, answer, response
  tool       \* a vectorRetrievalTool.execute call: input, retrievals, result

storeVars == <<tables, up, got, prev, calls>>

retVars == <<ret>>

asmVars == <<asm>>

embVars == <<emb, inflight, ecb>>

ckVars == <<ck>>

fbVars == <<fb>>

ingVars == <<ing>>

mdVars == <<md>>

wcVars == <<wc>>

ragVars == <<rag>>

toolVars == <<tool>>

nonStoreVars == <<ret, asm, emb, inflight, ecb, ck, fb, ing, md, wc, rag, tool>>

vars == <<tables, up, got, prev, calls, ret, asm, emb, inflight, ecb, ck, fb, ing, md,
          wc, rag, tool>>

\* ------------------------------------------------------------------
\* Helpers
\* ------------------------------------------------------------------
SeqsUpTo(S, n) == UNION {[1..m -> S] : m \in 0..n}

Range(s) == {s[i] : i \in 1..Len(s)}

RECURSIVE SumOver(_, _)
SumOver(S, f) ==
  IF S = {} THEN 0
  ELSE LET x == CHOOSE y \in S : TRUE IN f[x] + SumOver(S \ {x}, f)

\* ------------------------------------------------------------------
\* Vector store: one table, rows kept as a bag of [id, val]
\* ------------------------------------------------------------------
NoTable == [exists |-> FALSE, dim |-> NoDim, rows |-> EmptyBag, fresh |-> 0]

\* number of rows of the table whose id is id
CountId(t, id) ==
  LET D == {r \in DOMAIN t.rows : r.id = id}
  IN SumOver(D, t.rows)

\* table.countRows()
RowCount(t) == BagCardinality(t.rows) + t.fresh

\* a delete that leaves the rows in place
DeleteIds_KeepRows(t, ids) == t

\* table.delete("id IN (...)")
DeleteIds(t, ids) ==
  LET D == {r \in DOMAIN t.rows : r.id \notin ids}
  IN [t EXCEPT !.rows = [r \in D |-> t.rows[r]]]

RECURSIVE BagOfRecs(_, _)
BagOfRecs(recs, ver) ==
  IF recs = <<>> THEN EmptyBag
  ELSE SetToBag({[id |-> Head(recs).id, val |-> ver]}) (+) BagOfRecs(Tail(recs), ver)

\* table.add(records): the tracked records plus `extra` records of fresh ids
AddRecs(t, recs, ver, extra) ==
  [t EXCEPT !.rows = t.rows (+) BagOfRecs(recs, ver), !.fresh = t.fresh + extra]

IdsOf(recs) == {recs[i].id : i \in 1..Len(recs)}

DimsOf(recs) == {recs[i].dim : i \in 1..Len(recs)}

Distinct(recs) == \A i, j \in 1..Len(recs) : recs[i].id = recs[j].id => i = j

\* getOrCreateTable(tableName, embeddingDim): the answer and the new table.
\* The dimension check throws inside a try whose catch only warns, so an
\* existing table is returned whatever its dimension.
GetOrCreateTable(t, dim, ioOk) ==
  IF ~ioOk THEN [status |-> "error", table |-> t, warned |-> FALSE]
  ELSE IF t.exists
    THEN [status |-> "ok", table |-> t,
          warned |-> (dim # NoDim /\ t.dim # dim)]
    ELSE IF dim = NoDim
      THEN [status |-> "error", table |-> t, warned |-> FALSE]
      ELSE [status |-> "ok",
            table |-> [exists |-> TRUE, dim |-> dim, rows |-> EmptyBag, fresh |-> 0],
            warned |-> FALSE]

NoGot == [called |-> FALSE, existed |-> FALSE, tableDim |-> NoDim, dim |-> NoDim,
          status |-> "none", warned |-> FALSE]

Observe(t, dim, res) ==
  [called |-> TRUE, existed |-> t.exists, tableDim |-> t.dim, dim |-> dim,
   status |-> res.status, warned |-> res.warned]

IdleUp == [pc |-> "idle", recs |-> <<>>, extra |-> 0, ver |-> 0,
           existing |-> {}, lookupOk |-> TRUE, deleted |-> FALSE, added |-> FALSE,
           allOk |-> TRUE]

NoPrev == [valid |-> FALSE, ids |-> {}, count |-> 0]

NoRet == [pc |-> "none", code |-> "none", suggestions |-> 0, chunks |-> <<>>,
          k |-> 0, minScore |-> 0, results |-> <<>>, query |-> "none", called |-> {}]

NoAsm == [pc |-> "none", chunks |-> <<>>, opts |-> <<>>, out |-> <<>>]

NoEmb == [adapter |-> "none", n |-> 0, pc |-> "none", i |-> 0,
          results |-> <<>>, error |-> "none"]

NoIng == [pc |-> "none", n |-> 0, embedAndStore |-> FALSE, log |-> <<>>,
          errors |-> <<>>, processedFiles |-> 0, totalChunks |-> 0,
          embeddedChunks |-> 0, storedChunks |-> 0]

NoMd == [pc |-> "none", text |-> <<>>, out |-> <<>>]

NoWc == [pc |-> "none", filters |-> <<>>, out |-> <<>>]

NoTool == [pc |-> "none", input |-> <<>>, retrievals |-> <<>>, out |-> <<>>]

NoRag == [pc |-> "none", input |-> <<>>, retrieved |-> <<>>, context |-> <<>>,
          generator |-> 0, answer |-> <<>>, out |-> <<>>]

NoFb == [pc |-> "none", query |-> <<>>, filters |-> {}, relax |-> FALSE, maxRetries |-> 0,
         expand |-> FALSE, expansions |-> 0, index |-> 0, attempts |-> <<>>, out |-> <<>>,
         error |-> <<>>]

NoEcb == [pc |-> "none", adapter |-> "none", n |-> 0, i |-> 0, embedded |-> 0,
          orphans |-> <<>>, results |-> <<>>, skipped |-> {}]

NoCk == [pc |-> "none", text |-> <<>>, strategy |-> "none", overlapRatio |-> 0,
         maxTokens |-> 0, chunks |-> <<>>]

IdleEmbed ==
  /\ emb = NoEmb
  /\ inflight = <<>>
  /\ ecb = NoEcb
  /\ ck = NoCk
  /\ fb = NoFb
  /\ ing = NoIng
  /\ md = NoMd
  /\ wc = NoWc
  /\ rag = NoRag
  /\ tool = NoTool

IdleStore ==
  /\ up = IdleUp
  /\ got = NoGot
  /\ prev = NoPrev
  /\ calls = 0

InitStore ==
  /\ tables = NoTable
  /\ IdleStore
  /\ ret = NoRet
  /\ asm = NoAsm
  /\ IdleEmbed

\* ------------------------------------------------------------------
\* upsertEmbeddings, one action per await
\* ------------------------------------------------------------------
Batches == SeqsUpTo([id : Ids, dim : Dims], MaxBatch)

\* entry: the empty-batch return and the mixed-dimension check
UpsertCall(recs, extra) ==
  /\ up.pc \in {"idle", "done", "failed"}
  /\ calls < MaxCalls
  /\ calls' = calls + 1
  /\ prev' = IF up.pc = "done" /\ up.recs # <<>>
             THEN [valid |-> Distinct(up.recs) /\ up.extra = 0,
                   ids |-> IdsOf(up.recs), count |-> RowCount(tables)]
             ELSE IF up.pc = "failed" THEN NoPrev ELSE prev
  /\ up' = [pc |-> IF recs = <<>> THEN "done"
                   ELSE IF Cardinality(DimsOf(recs)) > 1 THEN "failed"
                   ELSE "getTable",
            recs |-> recs, extra |-> IF recs = <<>> THEN 0 ELSE extra,
            ver |-> calls + 1, existing |-> {}, lookupOk |-> TRUE,
            deleted |-> FALSE, added |-> FALSE,
            allOk |-> up.allOk /\ up.pc # "failed"]
  /\ UNCHANGED <<tables, got>>
  /\ UNCHANGED nonStoreVars

\* await getOrCreateTable(tableName, embeddingDim); await ensureIndexes(table)
UpsertGetTable(ioOk) ==
  /\ up.pc = "getTable"
  /\ LET dim == up.recs[1].dim
         res == GetOrCreateTable(tables, dim, ioOk)
     IN /\ got' = Observe(tables, dim, res)
        /\ tables' = res.table
        /\ up' = [up EXCEPT !.pc = IF res.status = "ok" THEN "lookup" ELSE "failed"]
  /\ UNCHANGED <<prev, calls>>
  /\ UNCHANGED nonStoreVars

\* the query for existing ids; a failure is swallowed and read as "none exist"
UpsertLookup(ok) ==
  /\ up.pc = "lookup"
  /\ LET existing == IF ok THEN {id \in IdsOf(up.recs) : CountId(tables, id) > 0}
                     ELSE {}
     IN up' = [up EXCEPT !.existing = existing, !.lookupOk = ok,
                         !.pc = IF existing # {} THEN "delete" ELSE "add"]
  /\ UNCHANGED <<tables, got, prev, calls>>
  /\ UNCHANGED nonStoreVars

\* await table.delete(predicate)
UpsertDelete(ok) ==
  /\ up.pc = "delete"
  /\ IF ok
     THEN /\ tables' = DeleteIds(tables, up.existing)
          /\ up' = [up EXCEPT !.pc = "add", !.deleted = TRUE]
     ELSE /\ up' = [up EXCEPT !.pc = "failed"]
          /\ UNCHANGED tables
  /\ UNCHANGED <<got, prev, calls>>
  /\ UNCHANGED nonStoreVars

\* await table.add(records); the store rejects vectors of another dimension
UpsertAdd(ok) ==
  /\ up.pc = "add"
  /\ IF ok /\ up.recs[1].dim = tables.dim
     THEN /\ tables' = AddRecs(tables, up.recs, up.ver, up.extra)
          /\ up' = [up EXCEPT !.pc = IF Len(up.recs) + up.extra > OptimizeThreshold
                                     THEN "optimize" ELSE "done",
                              !.added = TRUE]
     ELSE /\ up' = [up EXCEPT !.pc = "failed"]
          /\ UNCHANGED tables
  /\ UNCHANGED <<got, prev, calls>>
  /\ UNCHANGED nonStoreVars

\* await table.optimize() inside the same try: a failure rejects the upsert
UpsertOptimize(ok) ==
  /\ up.pc = "optimize"
  /\ up' = [up EXCEPT !.pc = IF ok THEN "done" ELSE "failed"]
  /\ UNCHANGED <<tables, got, prev, calls>>
  /\ UNCHANGED nonStoreVars

NextStore ==
  \/ \E recs \in Batches, extra \in {0, OptimizeThreshold} : UpsertCall(recs, extra)
  \/ \E ok \in BOOLEAN : UpsertGetTable(ok)
  \/ \E ok \in BOOLEAN : UpsertLookup(ok)
  \/ \E ok \in BOOLEAN : UpsertDelete(ok)
  \/ \E ok \in BOOLEAN : UpsertAdd(ok)
  \/ \E ok \in BOOLEAN : UpsertOptimize(ok)

SpecStore == InitStore /\ [][NextStore]_vars

\* C1: upserting a batch of pairwise-distinct ids and then upserting the same
\* ids again leaves exactly one record per id, holding the second call's
\* values, and the row count after the second call equals that after the first.
C1_UpsertIdempotent ==
  (/\ up.pc = "done" /\ up.recs # <<>> /\ up.extra = 0 /\ Distinct(up.recs)
   /\ prev.valid /\ prev.ids = IdsOf(up.recs))
  => /\ \A id \in IdsOf(up.recs) :
          /\ CountId(tables, id) = 1
          /\ CopiesIn([id |-> id, val |-> up.ver], tables.rows) = 1
     /\ RowCount(tables) = prev.count

\* C10: getOrCreateTable on an existing table of another dimension rejects
\* and does not return the table.
C10_DimMismatchRejects ==
  (got.called /\ got.existed /\ got.dim # NoDim /\ got.tableDim # got.dim)
  => got.status = "error"

\* ------------------------------------------------------------------
\* retrieve
\* ------------------------------------------------------------------
NoFilters == {"undefined"}   \* retrieve called without a filters object

\* RetrievalFilters: the fields that are present (non-empty) in the object
Filters == {NoFilters} \cup SUBSET {"section", "source", "dateAfter"}

\* buildWhereClause: one condition per present field, in this order, or null
FilterOrder == <<"section", "docId", "source", "dateAfter", "dateBefore">>

buildWhereClause(filters) ==
  IF filters = NoFilters THEN <<>>
  ELSE SelectSeq(FilterOrder, LAMBDA f : f \in filters)

\* const distance = result._distance || 0
DistanceOf(d) == IF d = Undef THEN 0 ELSE d

Max(a, b) == IF a >= b THEN a ELSE b

Min(a, b) == IF a <= b THEN a ELSE b

\* Math.max(0, 1 - distance)
ScoreOf(d) == Max(0, Scale - DistanceOf(d))

\* results.map(result => toRetrievedChunk(result, score))
RECURSIVE ToChunks(_, _)
ToChunks(results, from) ==
  IF results = <<>> THEN <<>>
  ELSE <<[row |-> from, score |-> ScoreOf(Head(results))]>>
       \o ToChunks(Tail(results), from + 1)

\* .filter(chunk => chunk.score >= minScore)
FilterByScore(chunks, minScore) ==
  SelectSeq(chunks, LAMBDA c : c.score >= minScore)

\* Array.prototype.sort((a, b) => b.score - a.score): stable, descending
\* the comparator reversed (a.score - b.score): ascending order
RECURSIVE InsertAsc(_, _)
InsertAsc(sorted, c) ==
  IF sorted = <<>> THEN <<c>>
  ELSE IF Head(sorted).score <= c.score
    THEN <<Head(sorted)>> \o InsertAsc(Tail(sorted), c)
    ELSE <<c>> \o sorted

RECURSIVE InsertDesc(_, _)
InsertDesc(sorted, c) ==
  IF sorted = <<>> THEN <<c>>
  ELSE IF Head(sorted).score >= c.score
    THEN <<Head(sorted)>> \o InsertDesc(Tail(sorted), c)
    ELSE <<c>> \o sorted

RECURSIVE SortDesc(_)
SortDesc(chunks) ==
  IF chunks = <<>> THEN <<>>
  ELSE InsertDesc(SortDesc(SubSeq(chunks, 1, Len(chunks) - 1)), chunks[Len(chunks)])

\* throw new RetrievalError(message, code, suggestions): the outcome records
\* the query it was called with and the collaborators it had called by then
Rejected(code, n, query, called, k, minScore, results) ==
  [pc |-> "rejected", code |-> code, suggestions |-> n, chunks |-> <<>>,
   k |-> k, minScore |-> minScore, results |-> results,
   query |-> query, called |-> called]

\* a catch block that rethrows whatever it caught
WrapError_Rethrow(msg) ==
  msg

\* the catch block: a RetrievalError passes, anything else is wrapped
WrapError(msg) ==
  IF msg = "no such table" THEN "DatabaseError:TableNotFound"
  ELSE IF msg = "no such column" THEN "FilterMismatch"
  ELSE "DatabaseError"

\* what the store answers to vectorSearch(v).where(p).limit(k).toArray():
\* at most k rows of the table, in an order and at distances of its own
SearchAnswers(t, k) == SeqsUpTo(Dists \cup {Undef}, Min(k, RowCount(t)))

QueryKinds == {"empty", "blank", "text"}

\* what adapter.embedBatch([query]) gives: a throw, no vector, or a vector
\* of some dimension
EmbedThrows == -2
EmbedNone == 0
EmbedAnswers == {EmbedThrows, EmbedNone} \cup Dims

StoreErrors == {"none", "no such table", "no such column", "connection lost"}

Retrieve(query, filters, k, minScore, embedded, ioOk, storeErr, results) ==
  /\ up.pc \in {"idle", "done", "failed"}
  /\ ret.pc = "none"
  /\ IF query \in {"empty", "blank"}
     THEN /\ ret' = Rejected("InvalidQuery", 1, query, {}, k, minScore, <<>>)
          /\ UNCHANGED <<tables, got>>
     ELSE IF embedded = EmbedThrows
     THEN /\ ret' = Rejected(WrapError("provider"), 2, query, {"embed"}, k, minScore, <<>>)
          /\ UNCHANGED <<tables, got>>
     ELSE IF embedded = EmbedNone
     THEN /\ ret' = Rejected("EmbeddingError", 2, query, {"embed"}, k, minScore, <<>>)
          /\ UNCHANGED <<tables, got>>
     ELSE LET res == GetOrCreateTable(tables, embedded, ioOk)
              where == buildWhereClause(filters)
          IN /\ got' = Observe(tables, embedded, res)
             /\ tables' = res.table
             /\ IF res.status # "ok"
                THEN ret' = Rejected(WrapError("connection lost"), 2, query,
                                     {"embed", "table"}, k, minScore, <<>>)
                ELSE IF storeErr # "none"
                THEN ret' = Rejected(WrapError(storeErr), 2, query,
                                     {"embed", "table", "search"}, k, minScore, <<>>)
                ELSE IF res.table.dim # embedded
                THEN ret' = Rejected(WrapError("dimension"), 2, query,
                                     {"embed", "table", "search"}, k, minScore, <<>>)
                ELSE /\ results \in SearchAnswers(res.table, k)
                     /\ IF Len(results) = 0
                        THEN ret' = Rejected("EmptyResults",
                                             IF filters # NoFilters THEN 3 ELSE 1,
                                             query, {"embed", "table", "search"},
                                             k, minScore, results)
                        ELSE ret' = [pc |-> "resolved", code |-> "none",
                                     suggestions |-> 0,
                                     chunks |-> SortDesc(FilterByScore(
                                                  ToChunks(results, 1), minScore)),
                                     k |-> k, minScore |-> minScore,
                                     results |-> results, query |-> query,
                                     called |-> {"embed", "table", "search"}]
  /\ UNCHANGED <<up, prev, calls>>
  /\ UNCHANGED asmVars
  /\ UNCHANGED embVars
  /\ UNCHANGED ckVars
  /\ UNCHANGED fbVars
  /\ UNCHANGED <<ingVars, mdVars, wcVars, ragVars, toolVars>>

SearchedTables ==
  {NoTable} \cup {[exists |-> TRUE, dim |-> d, rows |-> EmptyBag, fresh |-> n] :
                  d \in Dims, n \in 0..MaxRows}

InitRetrieve ==
  /\ tables \in SearchedTables
  /\ IdleStore
  /\ ret = NoRet
  /\ asm = NoAsm
  /\ IdleEmbed

\* the search answer is drawn only on the path that reaches the search
ReachesSearch(query, embedded, ioOk, storeErr) ==
  query = "text" /\ embedded \in Dims /\ ioOk /\ storeErr = "none"

RetrieveCall ==
  \E query \in QueryKinds, k \in 1..MaxK, minScore \in MinScores,
     embedded \in EmbedAnswers, ioOk \in BOOLEAN, storeErr \in StoreErrors :
    \E filters \in Filters :
      \E results \in (IF ReachesSearch(query, embedded, ioOk, storeErr)
                      THEN SearchAnswers(GetOrCreateTable(tables, embedded, ioOk).table, k)
                      ELSE {<<>>}) :
        Retrieve(query, filters, k, minScore, embedded, ioOk, storeErr, results)

\* the caller takes the outcome; the next retrieve may start
RetrieveReturn ==
  /\ ret.pc # "none"
  /\ ret' = NoRet
  /\ UNCHANGED storeVars
  /\ UNCHANGED asmVars
  /\ UNCHANGED embVars
  /\ UNCHANGED ckVars
  /\ UNCHANGED fbVars
  /\ UNCHANGED <<ingVars, mdVars, wcVars, ragVars, toolVars>>

NextRetrieve ==
  \/ RetrieveCall
  \/ RetrieveReturn

SpecRetrieve == InitRetrieve /\ [][NextRetrieve]_vars

\* C3: retrieve never resolves to an empty array.
C3_NeverResolvesEmpty ==
  ret.pc = "resolved" => ret.chunks # <<>>

IsSortedDesc(chunks) ==
  \A i \in 1..(Len(chunks) - 1) : chunks[i].score >= chunks[i + 1].score

\* C4: a returned list has at most k elements, every score is
\* max(0, 1 - distance) of its row and lies in [0,1], every score is at least
\* minScore, and the scores are in non-increasing order.
C4_ResultShape ==
  ret.pc = "resolved" =>
    /\ Len(ret.chunks) <= ret.k
    /\ \A i \in 1..Len(ret.chunks) :
         LET c == ret.chunks[i]
             d == IF ret.results[c.row] = Undef THEN 0 ELSE ret.results[c.row]
         IN /\ c.score = (IF Scale - d > 0 THEN Scale - d ELSE 0)
            /\ c.score >= 0 /\ c.score <= Scale
            /\ c.score >= ret.minScore
    /\ IsSortedDesc(ret.chunks)

\* a retrieve that resolved with several chunks of different scores, one of
\* them clamped to 0 from a distance above 1, out of the store's order
C4_Witness ==
  /\ ret.pc = "resolved"
  /\ Len(ret.chunks) >= 2
  /\ ret.chunks[1].score > ret.chunks[Len(ret.chunks)].score
  /\ \E i \in 1..Len(ret.results) : ret.results[i] > Scale
  /\ \E i \in 1..(Len(ret.results) - 1) : ScoreOf(ret.results[i]) < ScoreOf(ret.results[i + 1])
  /\ Len(ret.chunks) < Len(ret.results)
\* ------------------------------------------------------------------
\* assembleContext
\* ------------------------------------------------------------------
\* a RetrievedChunk as the assembler reads it: the id by its length, the text
\* by its length
ChunkTokens == {40, 200}
ChunkScores == {2, 8}
IdLens == {18, 200}

AsmChunk(tokens, score, idLen) ==
  [tokens |-> tokens, score |-> score, idLen |-> idLen, textLen |-> 5 * tokens,
   cut |-> FALSE]

AsmChunks == {AsmChunk(t, sc, l) : t \in ChunkTokens, sc \in ChunkScores, l \in IdLens}

\* AssemblyOptions
AsmOptions ==
  [tokenBudget : {50, 100, 260, 500}, reservedTokens : {0, 150},
   includeCitations : BOOLEAN, maxChunks : {1, 20}, minScore : {0, 5}]

\* Math.ceil(a / b) for a >= 0, b > 0
CeilDiv(a, b) == (a + b - 1) \div b

\* estimateCitationTokens: Math.ceil(chunkId.length / 4) + 2
estimateCitationTokens(idLen) == CeilDiv(idLen, 4) + 2

\* truncation that cuts the text but keeps the chunk's token count
truncateChunk_KeepTokens(chunk, maxTokens) ==
  IF chunk.tokens <= maxTokens THEN chunk
  ELSE [chunk EXCEPT !.textLen = Min(chunk.textLen, maxTokens * 4) + 3,
                     !.cut = TRUE]

\* truncateChunk: text.slice(0, maxTokens * 4) + '...', tokens: maxTokens
truncateChunk(chunk, maxTokens) ==
  IF chunk.tokens <= maxTokens THEN chunk
  ELSE [chunk EXCEPT !.textLen = Min(chunk.textLen, maxTokens * 4) + 3,
                     !.tokens = maxTokens, !.cut = TRUE]

\* Math.max(100, tokenBudget - reservedTokens)
availableTokens(opts) == Max(100, opts.tokenBudget - opts.reservedTokens)

CitationTokens(chunk, opts) ==
  IF opts.includeCitations THEN estimateCitationTokens(chunk.idLen) ELSE 0

\* .filter(score >= minScore).sort(descending).slice(0, maxChunks)
validChunks(chunks, opts) ==
  LET sorted == SortDesc(FilterByScore(chunks, opts.minScore))
  IN SubSeq(sorted, 1, Min(Len(sorted), opts.maxChunks))

\* truncation allowed for any chunk that does not fit, not for the first only
CanTruncate_AnyChunk(remainingTokens, selectedChunks) == remainingTokens > 50

\* remainingTokens > 50 && selectedChunks.length === 0
CanTruncate(remainingTokens, selectedChunks) ==
  remainingTokens > 50 /\ Len(selectedChunks) = 0

\* the loop without its break: a chunk that does not fit is skipped and the
\* later ones are still tried
RECURSIVE Pack_NoBreak(_, _, _, _)
Pack_NoBreak(valid, i, opts, acc) ==
  IF i > Len(valid) THEN acc
  ELSE LET chunk == valid[i]
           citationTokens == CitationTokens(chunk, opts)
           requiredTokens == chunk.tokens + citationTokens
       IN IF acc.totalTokens + requiredTokens <= availableTokens(opts)
          THEN Pack_NoBreak(valid, i + 1, opts,
                    [acc EXCEPT !.chunks = Append(acc.chunks, chunk),
                                !.totalTokens = acc.totalTokens + requiredTokens])
          ELSE LET remainingTokens ==
                     availableTokens(opts) - acc.totalTokens - citationTokens
               IN IF CanTruncate(remainingTokens, acc.chunks)
                  THEN LET truncatedChunk == truncateChunk(chunk, remainingTokens)
                       IN [chunks |-> Append(acc.chunks, truncatedChunk),
                           totalTokens |-> acc.totalTokens + truncatedChunk.tokens
                                           + citationTokens,
                           truncated |-> TRUE]
                  ELSE Pack_NoBreak(valid, i + 1, opts, acc)

\* the greedy loop over validChunks, from position i on
RECURSIVE Pack(_, _, _, _)
Pack(valid, i, opts, acc) ==
  IF i > Len(valid) THEN acc
  ELSE LET chunk == valid[i]
           citationTokens == CitationTokens(chunk, opts)
           requiredTokens == chunk.tokens + citationTokens
       IN IF acc.totalTokens + requiredTokens <= availableTokens(opts)
          THEN Pack(valid, i + 1, opts,
                    [acc EXCEPT !.chunks = Append(acc.chunks, chunk),
                                !.totalTokens = acc.totalTokens + requiredTokens])
          ELSE LET remainingTokens ==
                     availableTokens(opts) - acc.totalTokens - citationTokens
               IN IF CanTruncate(remainingTokens, acc.chunks)
                  THEN LET truncatedChunk == truncateChunk(chunk, remainingTokens)
                       IN [chunks |-> Append(acc.chunks, truncatedChunk),
                           totalTokens |-> acc.totalTokens + truncatedChunk.tokens
                                           + citationTokens,
                           truncated |-> TRUE]
                  ELSE acc

NoneSelected == [chunks |-> <<>>, totalTokens |-> 0, truncated |-> FALSE]

\* the context string, as its parts in order: each selected chunk's text,
\* prefixed by its citation marker when citations are on
ContextOf(selected, opts) ==
  [i \in 1..Len(selected) |->
     [marker |-> opts.includeCitations, idLen |-> selected[i].idLen,
      textLen |-> selected[i].textLen]]

EmptyContext ==
  [context |-> <<>>, chunks |-> <<>>, totalTokens |-> 0, truncated |-> FALSE]

assembleContext(chunks, opts) ==
  IF Len(chunks) = 0 THEN EmptyContext
  ELSE IF Len(validChunks(chunks, opts)) = 0 THEN EmptyContext
  ELSE LET packed == Pack(validChunks(chunks, opts), 1, opts, NoneSelected)
       IN IF Len(packed.chunks) = 0 THEN EmptyContext
          ELSE [context |-> ContextOf(packed.chunks, opts),
                chunks |-> packed.chunks,
                totalTokens |-> packed.totalTokens,
                truncated |-> packed.truncated]

InitAssemble ==
  /\ tables = NoTable
  /\ IdleStore
  /\ ret = NoRet
  /\ IdleEmbed
  /\ \E chunks \in SeqsUpTo(AsmChunks, MaxChunks), opts \in AsmOptions :
       asm = [pc |-> "call", chunks |-> chunks, opts |-> opts, out |-> EmptyContext]

Assemble ==
  /\ asm.pc = "call"
  /\ asm' = [asm EXCEPT !.pc = "done", !.out = assembleContext(asm.chunks, asm.opts)]
  /\ UNCHANGED storeVars
  /\ UNCHANGED retVars
  /\ UNCHANGED embVars
  /\ UNCHANGED ckVars
  /\ UNCHANGED fbVars
  /\ UNCHANGED <<ingVars, mdVars, wcVars, ragVars, toolVars>>

NextAssemble ==
  \/ Assemble

SpecAssemble == InitAssemble /\ [][NextAssemble]_vars

\* assembleContext on any chunks of the model and on 5 chunks of 200 tokens
InitAssembleWide ==
  /\ tables = NoTable
  /\ IdleStore
  /\ ret = NoRet
  /\ IdleEmbed
  /\ \E chunks \in SeqsUpTo(AsmChunks, MaxChunks)
                   \cup [1..5 -> {c \in AsmChunks : c.tokens = 200}],
        opts \in AsmOptions :
       asm = [pc |-> "call", chunks |-> chunks, opts |-> opts, out |-> EmptyContext]

SpecAssembleWide == InitAssembleWide /\ [][NextAssemble]_vars

\* C5: for every positive tokenBudget the reported totalTokens never exceeds
\* tokenBudget.
C5_WithinTokenBudget ==
  (asm.pc = "done" /\ asm.opts.tokenBudget > 0)
  => asm.out.totalTokens <= asm.opts.tokenBudget

RECURSIVE SumTokens(_, _)
SumTokens(chunks, opts) ==
  IF chunks = <<>> THEN 0
  ELSE Head(chunks).tokens + CitationTokens(Head(chunks), opts)
       + SumTokens(Tail(chunks), opts)

\* C6: totalTokens is at most availableTokens = max(100, tokenBudget -
\* reservedTokens) and equals the sum over the returned chunks of the chunk's
\* tokens (reduced ones for a truncated chunk) plus its citation overhead.
C6_TotalIsSumWithinAvailable ==
  asm.pc = "done" =>
    /\ asm.out.totalTokens <=
         (IF asm.opts.tokenBudget - asm.opts.reservedTokens > 100
          THEN asm.opts.tokenBudget - asm.opts.reservedTokens ELSE 100)
    /\ asm.out.totalTokens = SumTokens(asm.out.chunks, asm.opts)

\* an assembly of several chunks that returned the best one truncated, with
\* its reduced token count and its citation overhead filling the budget
C6_Witness ==
  /\ asm.pc = "done"
  /\ Len(asm.chunks) >= 2
  /\ asm.opts.includeCitations
  /\ asm.out.truncated
  /\ asm.out.chunks[1].cut
  /\ asm.out.chunks[1].tokens < 200
  /\ asm.out.totalTokens = availableTokens(asm.opts)
\* ------------------------------------------------------------------
\* Embedding adapters: embedBatch, embedSingle (Ollama),
\* embedBatchInternal (OpenAI)
\* ------------------------------------------------------------------
maxRetries == 5

\* what one fetch can come back with: a well-formed answer, an answer with a
\* vector of another length, an answer without an embedding array, an HTTP
\* error status, a failed connection, a timeout
OllamaResponses ==
  {"ok", "dim", "invalid", "http429", "http5xx", "http4xx", "conn", "timeout"}

\* the OpenAI answer carries a list of items: "short" is a well-formed answer
\* with one item fewer than the request had inputs
OpenAIResponses == OllamaResponses \cup {"short"}

\* a provider call right after its first fetch was sent; texts are named by
\* their index in the embedBatch input, and so is the vector made from a text;
\* answer is the provider's answer to the fetch of the current attempt
NewCall(texts) ==
  [texts |-> texts, pc |-> "fetch", attempt |-> 1, requests |-> 1, delays |-> 0,
   answer |-> "none", lastError |-> "none", error |-> "none", vectors |-> <<>>,
   onlyConn |-> TRUE]

Resolve(c, vectors) == [c EXCEPT !.pc = "resolved", !.vectors = vectors]

Reject(c, err) == [c EXCEPT !.pc = "rejected", !.error = err, !.lastError = err]

Backoff(c, err) ==
  [c EXCEPT !.pc = "backoff", !.delays = c.delays + 1,
            !.lastError = IF err = "none" THEN c.lastError ELSE err]

\* the dimension error treated like any other error of the catch block
embedSingleOnResponse_RetryDim(c, r) ==
  IF r = "ok" THEN Resolve(c, c.texts)
  ELSE IF r \in {"http429", "http5xx"} THEN Backoff(c, "none")
  ELSE IF r = "conn"
    THEN IF c.attempt = maxRetries THEN Reject(c, "OllamaUnavailable")
         ELSE Backoff(c, "conn")
  ELSE IF c.attempt < maxRetries THEN Backoff(c, r)
  ELSE Reject(c, r)

\* embedSingle: one pass through the body of the retry loop
embedSingleOnResponse(c, r) ==
  IF r = "ok" THEN Resolve(c, c.texts)
  ELSE IF r \in {"http429", "http5xx"} THEN Backoff(c, "none")
  ELSE IF r = "conn"
    THEN IF c.attempt = maxRetries THEN Reject(c, "OllamaUnavailable")
         ELSE Backoff(c, "conn")
  ELSE IF r = "dim" THEN Reject(c, "DimensionMismatch")
  ELSE IF c.attempt < maxRetries THEN Backoff(c, r)
  ELSE Reject(c, r)

\* embedBatchInternal: one pass through the body of the retry loop
embedBatchInternalOnResponse(c, r) ==
  IF r = "ok" THEN Resolve(c, c.texts)
  ELSE IF r = "short" THEN Resolve(c, SubSeq(c.texts, 1, Len(c.texts) - 1))
  ELSE IF r \in {"http429", "http5xx"} THEN Backoff(c, "none")
  ELSE IF r = "dim" THEN Reject(c, "DimensionMismatch")
  ELSE IF r = "invalid" THEN Reject(c, "InvalidEmbedding")
  ELSE IF c.attempt < maxRetries THEN Backoff(c, r)
  ELSE Reject(c, r)

\* the loop goes on after the last allowed attempt as well
AfterBackoff_OffByOne(c) ==
  IF c.attempt <= maxRetries
  THEN [c EXCEPT !.pc = "fetch", !.attempt = c.attempt + 1,
                 !.requests = c.requests + 1, !.answer = "none"]
  ELSE Reject(c, IF c.lastError = "none" THEN "RetriesExhausted" ELSE c.lastError)

\* the delay is over: `continue`, then the loop test attempt <= maxRetries,
\* then either the next fetch or the throw after the loop
AfterBackoff(c) ==
  IF c.attempt < maxRetries
  THEN [c EXCEPT !.pc = "fetch", !.attempt = c.attempt + 1,
                 !.requests = c.requests + 1, !.answer = "none"]
  ELSE Reject(c, IF c.lastError = "none" THEN "RetriesExhausted" ELSE c.lastError)

\* the answer of the attempt is noted in the call (onlyConn: every answer up
\* to now was a failed connection), then the adapter's loop body runs
Answered(c, r) ==
  [c EXCEPT !.answer = r, !.onlyConn = @ /\ r = "conn"]

\* one loop body for both adapters
OnResponse_OneLoop(adapter, c, r) ==
  embedBatchInternalOnResponse(Answered(c, r), r)

OnResponse(adapter, c, r) ==
  IF adapter = "ollama" THEN embedSingleOnResponse(Answered(c, r), r)
  ELSE embedBatchInternalOnResponse(Answered(c, r), r)

BatchSizeOf(adapter) ==
  IF adapter = "ollama" THEN OllamaBatchSize ELSE OpenAIBatchSize

\* texts.slice(i, i + batchSize), then one embedSingle per text (Ollama) or
\* one embedBatchInternal for the slice (OpenAI)
StartGroup(adapter, i, n) ==
  LET size == Min(n, i + BatchSizeOf(adapter)) - i
  IN IF adapter = "ollama"
     THEN [slot \in 1..size |-> NewCall(<<i + slot>>)]
     ELSE <<NewCall([j \in 1..size |-> i + j])>>

\* the value of Promise.all / of the awaited call: the vectors by slot
RECURSIVE GroupResults(_)
GroupResults(cs) ==
  IF cs = <<>> THEN <<>>
  ELSE Head(cs).vectors \o GroupResults(Tail(cs))

\* what embedBatch does when a provider call settles: a rejection rejects
\* embedBatch at once; once every call of the group has resolved, the
\* vectors are pushed and the loop goes on
Settle(e, cs) ==
  IF e.pc # "await" THEN [emb |-> e, inflight |-> cs]
  ELSE IF \E slot \in 1..Len(cs) : cs[slot].pc = "rejected"
    THEN LET slot == CHOOSE sl \in 1..Len(cs) : cs[sl].pc = "rejected"
         IN [emb |-> [e EXCEPT !.pc = "rejected", !.error = cs[slot].error],
             inflight |-> cs]
  ELSE IF \A slot \in 1..Len(cs) : cs[slot].pc = "resolved"
    THEN LET results == e.results \o GroupResults(cs)
             i == e.i + BatchSizeOf(e.adapter)
         IN IF i < e.n
            THEN [emb |-> [e EXCEPT !.results = results, !.i = i],
                  inflight |-> StartGroup(e.adapter, i, e.n)]
            ELSE [emb |-> [e EXCEPT !.results = results, !.i = i, !.pc = "resolved"],
                  inflight |-> cs]
  ELSE [emb |-> e, inflight |-> cs]

InitEmbed ==
  /\ tables = NoTable
  /\ IdleStore
  /\ ret = NoRet
  /\ asm = NoAsm
  /\ \E adapter \in {"ollama", "openai"}, n \in 0..MaxTexts :
       emb = [adapter |-> adapter, n |-> n, pc |-> "call", i |-> 0,
              results |-> <<>>, error |-> "none"]
  /\ inflight = <<>>
  /\ ecb = NoEcb
  /\ ck = NoCk
  /\ fb = NoFb
  /\ ing = NoIng
  /\ md = NoMd
  /\ wc = NoWc
  /\ rag = NoRag
  /\ tool = NoTool

\* embedBatch(texts) up to its first await
EmbedBatch ==
  /\ emb.pc = "call"
  /\ IF emb.n = 0
     THEN /\ emb' = [emb EXCEPT !.pc = "resolved"]
          /\ UNCHANGED inflight
     ELSE /\ emb' = [emb EXCEPT !.pc = "await"]
          /\ inflight' = StartGroup(emb.adapter, 0, emb.n)
  /\ UNCHANGED <<storeVars, retVars, asmVars, ckVars, fbVars, ingVars, mdVars, wcVars, ragVars, toolVars>>
  /\ UNCHANGED ecb

\* the provider answers the fetch of one call
Respond(slot, r) ==
  /\ emb.pc \in {"await", "rejected"}
  /\ slot \in 1..Len(inflight)
  /\ inflight[slot].pc = "fetch"
  /\ r \in (IF emb.adapter = "ollama" THEN OllamaResponses ELSE OpenAIResponses)
  /\ LET cs == [inflight EXCEPT ![slot] = OnResponse(emb.adapter, @, r)]
         after == Settle(emb, cs)
     IN /\ emb' = after.emb
        /\ inflight' = after.inflight
  /\ UNCHANGED <<storeVars, retVars, asmVars, ckVars, fbVars, ingVars, mdVars, wcVars, ragVars, toolVars>>
  /\ UNCHANGED ecb

\* the backoff timer of one call fires
BackoffDone(slot) ==
  /\ emb.pc \in {"await", "rejected"}
  /\ slot \in 1..Len(inflight)
  /\ inflight[slot].pc = "backoff"
  /\ LET cs == [inflight EXCEPT ![slot] = AfterBackoff(@)]
         after == Settle(emb, cs)
     IN /\ emb' = after.emb
        /\ inflight' = after.inflight
  /\ UNCHANGED <<storeVars, retVars, asmVars, ckVars, fbVars, ingVars, mdVars, wcVars, ragVars, toolVars>>
  /\ UNCHANGED ecb

MaxSlots == Max(OllamaBatchSize, 1)

NextEmbed ==
  \/ EmbedBatch
  \/ \E slot \in 1..MaxSlots, r \in OpenAIResponses : Respond(slot, r)
  \/ \E slot \in 1..MaxSlots : BackoffDone(slot)

SpecEmbed == InitEmbed /\ [][NextEmbed]_vars

\* a single provider call: embedBatch of one text
InitProvider ==
  /\ tables = NoTable
  /\ IdleStore
  /\ ret = NoRet
  /\ asm = NoAsm
  /\ \E adapter \in {"ollama", "openai"} :
       emb = [adapter |-> adapter, n |-> 1, pc |-> "call", i |-> 0,
              results |-> <<>>, error |-> "none"]
  /\ inflight = <<>>
  /\ ecb = NoEcb
  /\ ck = NoCk
  /\ fb = NoFb
  /\ ing = NoIng
  /\ md = NoMd
  /\ wc = NoWc
  /\ rag = NoRag
  /\ tool = NoTool

NextProvider ==
  \/ EmbedBatch
  \/ \E r \in OpenAIResponses : Respond(1, r)
  \/ BackoffDone(1)

SpecProvider == InitProvider /\ [][NextProvider]_vars

\* every fetch is answered or times out (AbortSignal.timeout) and every
\* backoff timer fires
SpecProviderFair == SpecProvider /\ WF_vars(NextProvider)

\* C7: whenever embedBatch resolves, the result has exactly one vector per
\* input text and result[i] is the vector produced for texts[i].
C7_OrderAndCountPreserved ==
  emb.pc = "resolved" =>
    /\ Len(emb.results) = emb.n
    /\ \A i \in 1..Len(emb.results) : emb.results[i] = i

Settled(c) == c.pc \in {"resolved", "rejected"}

\* errors a call can end with after transient failures only
TransientErrors == {"OllamaUnavailable", "RetriesExhausted", "conn", "timeout"}

C8_Safety ==
  \A slot \in 1..Len(inflight) :
    LET c == inflight[slot]
    IN /\ c.requests <= 5
       /\ c.pc = "resolved" =>
            (c.answer \in {"ok", "short"} /\ c.delays = c.requests - 1)
       /\ (c.pc = "rejected" /\ c.error \in TransientErrors) => c.requests = 5

C8_AllSettled ==
  /\ emb.pc \in {"resolved", "rejected"}
  /\ \A slot \in 1..Len(inflight) : Settled(inflight[slot])

\* C8: every provider call sends at most 5 requests, resolves at its first
\* successful answer, rejects after transient failures only once the 5th
\* attempt has failed, and always ends.
C8_BoundedRetries == []C8_Safety /\ <>C8_AllSettled

\* a call that was rejected after five requests that all failed transiently,
\* the last one with a rate-limit answer and its delay
C8_Witness ==
  \E slot \in 1..Len(inflight) :
    LET c == inflight[slot]
    IN c.pc = "rejected" /\ c.requests = 5 /\ c.delays = 5
       /\ c.answer = "http429" /\ c.error = "timeout"

\* C9: a vector of another length than expectedDim makes the provider call
\* reject with the dimension error after that attempt, without a further
\* request and without a delay, whatever the attempt number.
C9_DimMismatchNotRetried ==
  \A slot \in 1..Len(inflight) :
    LET c == inflight[slot]
    IN c.answer = "dim" =>
         /\ c.pc = "rejected"
         /\ c.error = "DimensionMismatch"
         /\ c.requests = c.attempt
         /\ c.delays = c.attempt - 1

\* a call rejected for the dimension at its third attempt, after two delays
C9_Witness ==
  \E slot \in 1..Len(inflight) :
    LET c == inflight[slot]
    IN c.answer = "dim" /\ c.pc = "rejected" /\ c.attempt = 3 /\ c.delays = 2

\* ------------------------------------------------------------------
\* Chunker: splitIntoChunks and its four strategies
\* ------------------------------------------------------------------
\* A text is a sequence of characters. "w" stands for a word of MinChunkLen
\* letters and "a" for a word of one letter; the other characters are a blank,
\* a line feed, a full stop and a hash sign.
MinChunkLen == 10          \* chunk.trim().length >= 10
SectionTokenLimit == 400   \* estimateTokens(section) > 400

NL == "\n"

WS == {" ", NL}            \* the characters of \s in a text

SentenceEnd == {"."}       \* the characters of [.!?] in a text

MaxHashes == 6             \* #{1,6}

DocTokens == {"W", "SP", "PARA", "DOT", "HDR"}

CharsOf(token) ==
  CASE token = "W" -> <<"w">>
    [] token = "SP" -> <<" ">>
    [] token = "PARA" -> <<NL, NL>>
    [] token = "DOT" -> <<".">>
    [] token = "HDR" -> <<"#", " ">>
    [] token = "A" -> <<"a">>

RECURSIVE Expand(_)
Expand(tokens) ==
  IF tokens = <<>> THEN <<>>
  ELSE CharsOf(Head(tokens)) \o Expand(Tail(tokens))

Docs == {Expand(tokens) : tokens \in SeqsUpTo(DocTokens, MaxDocLen)}

Strategies == {"paragraph", "sentence", "section", "token"}

OverlapRatios == {0, 5, 10}   \* overlapRatio in tenths: 0, 0.5, 1

MaxTokenCaps == {1, 2, 4}     \* maxTokens

\* String.prototype.length
RECURSIVE StrLen(_)
StrLen(s) ==
  IF s = <<>> THEN 0
  ELSE (IF Head(s) = "w" THEN MinChunkLen ELSE 1) + StrLen(Tail(s))

RECURSIVE trimStart(_)
trimStart(s) ==
  IF s = <<>> THEN <<>>
  ELSE IF Head(s) \in WS THEN trimStart(Tail(s))
  ELSE s

RECURSIVE trimEnd(_)
trimEnd(s) ==
  IF s = <<>> THEN <<>>
  ELSE IF s[Len(s)] \in WS THEN trimEnd(SubSeq(s, 1, Len(s) - 1))
  ELSE s

\* String.prototype.trim
trim(s) == trimEnd(trimStart(s))

\* text.split(/[sep]+/) from position i on: cur is the piece being read,
\* inSep says that the last character read was a separator
RECURSIVE SplitFrom(_, _, _, _, _)
SplitFrom(s, sep, i, cur, inSep) ==
  IF i > Len(s) THEN <<cur>>
  ELSE IF s[i] \in sep
    THEN IF inSep THEN SplitFrom(s, sep, i + 1, cur, TRUE)
         ELSE <<cur>> \o SplitFrom(s, sep, i + 1, <<>>, TRUE)
  ELSE SplitFrom(s, sep, i + 1, Append(cur, s[i]), FALSE)

\* text.split(/\s+/), text.split(/[.!?]+/): the pieces between the maximal
\* runs of separators; a run at either end leaves an empty piece there
Split(s, sep) == SplitFrom(s, sep, 1, <<>>, FALSE)

\* the end of the match of /\n\s*\n/ that starts at i: the last line feed
\* of the whitespace run that starts at the line feed s[i]; 0 without match
ParagraphBreakEnd(s, i) ==
  LET ends == {j \in (i + 1)..Len(s) :
                 s[j] = NL /\ \A k \in i..j : s[k] \in WS}
  IN IF s[i] # NL \/ ends = {} THEN 0
     ELSE CHOOSE j \in ends : \A k \in ends : k <= j

\* text.split(/\n\s*\n/): p is where the current piece starts
RECURSIVE SplitParagraphsFrom(_, _, _)
SplitParagraphsFrom(s, p, i) ==
  IF i > Len(s) THEN <<SubSeq(s, p, Len(s))>>
  ELSE LET j == ParagraphBreakEnd(s, i)
       IN IF j # 0
          THEN <<SubSeq(s, p, i - 1)>> \o SplitParagraphsFrom(s, j + 1, j + 1)
          ELSE SplitParagraphsFrom(s, p, i + 1)

SplitParagraphs(s) == SplitParagraphsFrom(s, 1, 1)

\* the number of hash signs in a row from position q on
RECURSIVE HashRun(_, _)
HashRun(s, q) ==
  IF q > Len(s) \/ s[q] # "#" THEN 0
  ELSE 1 + HashRun(s, q + 1)

\* (?=^#{1,6}\s) with the m flag matches at q: q starts a line, and 1 to 6
\* hash signs followed by a whitespace character start there
IsHeaderAt(s, q) ==
  /\ q = 1 \/ s[q - 1] = NL
  /\ LET k == HashRun(s, q)
     IN /\ k \in 1..MaxHashes
        /\ q + k <= Len(s)
        /\ s[q + k] \in WS

\* text.split(/(?=^#{1,6}\s)/m): a cut before every header that is not at
\* the start of the current piece
RECURSIVE SplitSectionsFrom(_, _, _)
SplitSectionsFrom(s, p, q) ==
  IF q > Len(s) THEN <<SubSeq(s, p, Len(s))>>
  ELSE IF q > p /\ IsHeaderAt(s, q)
    THEN <<SubSeq(s, p, q - 1)>> \o SplitSectionsFrom(s, q, q + 1)
  ELSE SplitSectionsFrom(s, p, q + 1)

SplitSections(s) == SplitSectionsFrom(s, 1, 1)

\* .filter(s => s.trim().length > 0)
RECURSIVE NonBlank(_)
NonBlank(pieces) ==
  IF pieces = <<>> THEN <<>>
  ELSE IF trim(Head(pieces)) = <<>> THEN NonBlank(Tail(pieces))
  ELSE <<Head(pieces)>> \o NonBlank(Tail(pieces))

\* Array.prototype.join
RECURSIVE Join(_, _)
Join(pieces, sep) ==
  IF pieces = <<>> THEN <<>>
  ELSE IF Len(pieces) = 1 THEN Head(pieces)
  ELSE Head(pieces) \o sep \o Join(Tail(pieces), sep)

\* estimateTokens: Math.ceil(words * 1.3)
estimateTokens(text) == CeilDiv(13 * Len(Split(text, WS)), 10)

\* for (i = 0; i < items.length; i += step) items.slice(i, min(length, i + size))
RECURSIVE Windows(_, _, _, _)
Windows(items, size, step, i) ==
  IF i >= Len(items) THEN <<>>
  ELSE <<SubSeq(items, i + 1, Min(Len(items), i + size))>>
       \o Windows(items, size, step, i + step)

\* pieces.map(p => p.join(sep))
JoinEach(groups, sep) == [g \in 1..Len(groups) |-> Join(groups[g], sep)]

\* what a strategy does: it returns an array of pieces, or its loop never
\* ends because the index does not advance
Returns(chunks) == [hang |-> FALSE, chunks |-> chunks]

NeverReturns == [hang |-> TRUE, chunks |-> <<>>]

\* the window loop of a strategy, every window joined by sep
Loop(items, size, step, sep) ==
  IF step <= 0 THEN NeverReturns
  ELSE Returns(JoinEach(Windows(items, size, step, 0), sep))

\* floor(n * overlapRatio), the ratio given in tenths
FloorRatio(n, overlapRatio) == (n * overlapRatio) \div 10

\* wordsPerChunk rounded up instead of down
wordsPerChunk_Ceil(maxTokens) == CeilDiv(10 * maxTokens, 13)

\* Math.floor(maxTokens / 1.3)
wordsPerChunk(maxTokens) == (10 * maxTokens) \div 13

splitByTokens(text, maxTokens, overlapRatio) ==
  LET words == Split(text, WS)
      perChunk == wordsPerChunk(maxTokens)
      overlapWords == FloorRatio(perChunk, overlapRatio)
  IN IF Len(words) <= perChunk THEN Returns(<<text>>)
     ELSE Loop(words, perChunk, perChunk - overlapWords, <<" ">>)

\* one markdown section of splitByParagraph, trimmed
SectionChunks(section) ==
  IF estimateTokens(section) > SectionTokenLimit
  THEN LET paragraphs == NonBlank(SplitParagraphs(section))
           paragraphsPerChunk == Max(2, Len(paragraphs) \div 3)
       IN JoinEach(Windows(paragraphs, paragraphsPerChunk, paragraphsPerChunk, 0),
                   <<NL, NL>>)
  ELSE <<section>>

RECURSIVE AllSectionChunks(_)
AllSectionChunks(sections) ==
  IF sections = <<>> THEN <<>>
  ELSE SectionChunks(trim(Head(sections))) \o AllSectionChunks(Tail(sections))

\* documents of up to 3 paragraphs kept as a single chunk
splitByParagraph_KeepThree(text, overlapRatio) ==
  LET sections == NonBlank(SplitSections(text))
      paragraphs == NonBlank(SplitParagraphs(text))
      paragraphsPerChunk == Max(2, Len(paragraphs) \div 4)
      overlapSize == Max(1, FloorRatio(paragraphsPerChunk, overlapRatio))
  IN IF Len(sections) > 1 THEN Returns(AllSectionChunks(sections))
     ELSE IF Len(paragraphs) <= 3 THEN Returns(<<text>>)
     ELSE Loop(paragraphs, paragraphsPerChunk, paragraphsPerChunk - overlapSize,
               <<NL, NL>>)

splitByParagraph(text, overlapRatio) ==
  LET sections == NonBlank(SplitSections(text))
      paragraphs == NonBlank(SplitParagraphs(text))
      paragraphsPerChunk == Max(2, Len(paragraphs) \div 4)
      overlapSize == Max(1, FloorRatio(paragraphsPerChunk, overlapRatio))
  IN IF Len(sections) > 1 THEN Returns(AllSectionChunks(sections))
     ELSE IF Len(paragraphs) <= 2 THEN Returns(<<text>>)
     ELSE Loop(paragraphs, paragraphsPerChunk, paragraphsPerChunk - overlapSize,
               <<NL, NL>>)

splitBySentence(text, overlapRatio) ==
  LET sentences == NonBlank(Split(text, SentenceEnd))
      sentencesPerChunk == Max(3, Len(sentences) \div 10)
      overlapSize == Max(1, FloorRatio(sentencesPerChunk, overlapRatio))
      joined == Loop(sentences, sentencesPerChunk, sentencesPerChunk - overlapSize,
                     <<".", " ">>)
  IN IF Len(sentences) <= 1 THEN Returns(sentences)
     ELSE IF joined.hang THEN NeverReturns
     ELSE Returns([i \in 1..Len(joined.chunks) |-> trim(joined.chunks[i]) \o <<".">>])

splitBySection(text, overlapRatio) ==
  LET sections == NonBlank(SplitSections(text))
      n == Len(sections)
      overlapSize == Max(1, FloorRatio(n, overlapRatio))
  IN IF n <= 1 THEN splitByParagraph(text, overlapRatio)
     ELSE Returns([i \in 1..n |->
            Join(SubSeq(sections, Max(0, i - 1 - overlapSize) + 1, Min(n, i + 1)),
                 <<NL>>)])

\* the switch on options.strategy
ByStrategy(text, strategy, overlapRatio, maxTokens) ==
  CASE strategy = "paragraph" -> splitByParagraph(text, overlapRatio)
    [] strategy = "sentence" -> splitBySentence(text, overlapRatio)
    [] strategy = "section" -> splitBySection(text, overlapRatio)
    [] strategy = "token" -> splitByTokens(text, maxTokens, overlapRatio)

\* chunks.flatMap: a piece over the cap is split again without overlap
RECURSIVE TokenCapFallback(_, _)
TokenCapFallback(chunks, maxTokens) ==
  IF chunks = <<>> THEN Returns(<<>>)
  ELSE LET first == IF estimateTokens(Head(chunks)) > maxTokens
                    THEN splitByTokens(Head(chunks), maxTokens, 0)
                    ELSE Returns(<<Head(chunks)>>)
           rest == TokenCapFallback(Tail(chunks), maxTokens)
       IN IF first.hang \/ rest.hang THEN NeverReturns
          ELSE Returns(first.chunks \o rest.chunks)

\* chunks.filter(chunk => chunk.trim().length >= 10)
RECURSIVE LongEnough(_)
LongEnough(chunks) ==
  IF chunks = <<>> THEN <<>>
  ELSE IF StrLen(trim(Head(chunks))) >= MinChunkLen
    THEN <<Head(chunks)>> \o LongEnough(Tail(chunks))
  ELSE LongEnough(Tail(chunks))

DocId == "doc"             \* doc.docId

DecimalDigits == <<"0", "1", "2", "3", "4", "5", "6", "7", "8", "9">>

\* Number.prototype.toString, as a sequence of digit characters
RECURSIVE ToDigits(_)
ToDigits(n) ==
  IF n < 10 THEN <<DecimalDigits[n + 1]>>
  ELSE ToDigits(n \div 10) \o <<DecimalDigits[(n % 10) + 1]>>

\* String.prototype.padStart
RECURSIVE padStart(_, _, _)
padStart(digits, targetLength, fill) ==
  IF Len(digits) >= targetLength THEN digits
  ELSE padStart(<<fill>> \o digits, targetLength, fill)

\* `${docId}_chunk_${seq.toString().padStart(4, "0")}`
generateChunkId(docId, seq) == <<docId, "_chunk_">> \o padStart(ToDigits(seq), 4, "0")

\* seq and id counted from 1
ToChunkObjects_OneBased(chunks) ==
  [i \in 1..Len(chunks) |->
     [id |-> generateChunkId(DocId, i), text |-> trim(chunks[i]),
      tokens |-> estimateTokens(chunks[i]), seq |-> i]]

\* chunks.map((text, index) => ({...}))
ToChunkObjects(chunks) ==
  [i \in 1..Len(chunks) |->
     [id |-> generateChunkId(DocId, i - 1), text |-> trim(chunks[i]),
      tokens |-> estimateTokens(chunks[i]), seq |-> i - 1]]

splitIntoChunks(text, strategy, overlapRatio, maxTokens) ==
  IF trim(text) = <<>> THEN Returns(<<>>)
  ELSE LET pieces == ByStrategy(text, strategy, overlapRatio, maxTokens)
           capped == IF pieces.hang THEN NeverReturns
                     ELSE TokenCapFallback(pieces.chunks, maxTokens)
       IN IF capped.hang THEN NeverReturns
          ELSE Returns(ToChunkObjects(LongEnough(capped.chunks)))

InitChunk ==
  /\ tables = NoTable
  /\ IdleStore
  /\ ret = NoRet
  /\ asm = NoAsm
  /\ emb = NoEmb
  /\ inflight = <<>>
  /\ ecb = NoEcb
  /\ fb = NoFb
  /\ ing = NoIng
  /\ md = NoMd
  /\ wc = NoWc
  /\ rag = NoRag
  /\ tool = NoTool
  /\ \E text \in Docs, strategy \in Strategies, overlapRatio \in OverlapRatios,
        maxTokens \in MaxTokenCaps :
       ck = [pc |-> "call", text |-> text, strategy |-> strategy,
             overlapRatio |-> overlapRatio, maxTokens |-> maxTokens,
             chunks |-> <<>>]

\* one call of splitIntoChunks, to its return or into a loop that never ends
SplitIntoChunks ==
  /\ ck.pc = "call"
  /\ LET r == splitIntoChunks(ck.text, ck.strategy, ck.overlapRatio, ck.maxTokens)
     IN ck' = IF r.hang THEN [ck EXCEPT !.pc = "hung"]
              ELSE [ck EXCEPT !.pc = "done", !.chunks = r.chunks]
  /\ UNCHANGED <<storeVars, retVars, asmVars, embVars, fbVars, ingVars, mdVars, wcVars, ragVars, toolVars>>

NextChunk == SplitIntoChunks

SpecChunk == InitChunk /\ [][NextChunk]_vars

\* C2: every chunk that splitIntoChunks returns has an estimated token count
\* ceil(words * 1.3) of at most maxTokens, for the text of the chunk and for
\* the count kept in its metadata.
C2_ChunksWithinMaxTokens ==
  ck.pc = "done" =>
    \A i \in 1..Len(ck.chunks) :
      /\ estimateTokens(ck.chunks[i].text) <= ck.maxTokens
      /\ ck.chunks[i].tokens <= ck.maxTokens

\* a call that returned chunks after a piece of the strategy was over the
\* cap and was split again
C2_Witness ==
  /\ ck.pc = "done"
  /\ Len(ck.chunks) >= 2
  /\ ck.strategy = "paragraph"
  /\ LET pieces == splitByParagraph(ck.text, ck.overlapRatio)
     IN /\ ~pieces.hang
        /\ \E i \in 1..Len(pieces.chunks) :
             estimateTokens(pieces.chunks[i]) > ck.maxTokens

\* ------------------------------------------------------------------
\* Fallback controller: retrieveWithFallback
\* ------------------------------------------------------------------
\* the codes retrieve rejects with; it wraps every other error
RetrievalErrorCodes ==
  {"InvalidQuery", "EmbeddingError", "EmptyResults", "DatabaseError", "FilterMismatch"}

\* what one retrieve(query, filters) comes back with: it resolves with chunks
\* (never with none of them, the default minScore being 0) or rejects
PrimaryOutcomes == {"chunks"} \cup RetrievalErrorCodes

FallbackOutcomes == {"chunks", "EmptyResults", "DatabaseError"}

OriginalQuery == 0         \* expansions are numbered from 1

DefaultMaxRetries == 3     \* maxRetries = 3

\* FallbackOptions.maxRetries: a small budget and the default
FallbackRetries == {1, DefaultMaxRetries}

\* const { tableName = 'chunks', k = 20, minScore = 0.0 } = options
RetrieveDefaults == [tableName |-> "chunks", k |-> 20, minScore |-> 0]

\* the record of one finished retrieve call of the controller: the call is
\* retrieve(query, filters), so the options are the defaults of retrieve
Attempt(query, filters, outcome) ==
  [query |-> query, filters |-> filters, ok |-> outcome = "chunks", code |-> outcome,
   options |-> RetrieveDefaults]

\* the section filter dropped before the date filters
relaxationStrategies_SectionFirst(filters) ==
  << filters \ {"section"},
     filters \ {"dateAfter", "dateBefore"},
     filters \ {"source"},
     NoFilters >>

\* the array relaxationStrategies, each strategy applied to the filters given
relaxationStrategies(filters) ==
  << filters \ {"dateAfter", "dateBefore"},
     filters \ {"section"},
     filters \ {"source"},
     NoFilters >>

StrategyNames ==
  << "removed date filters", "removed section filters",
     "removed source filters", "removed all filters" >>

\* the value the controller resolves with; chunks names the attempt whose
\* chunks are handed on
FallbackResult(f, used, name) ==
  [f EXCEPT !.pc = "resolved",
            !.out = [chunks |-> Len(f.attempts), fallbackUsed |-> used,
                     fallbackStrategy |-> name,
                     expandedTo |-> IF name = "expanded query" THEN f.index
                                    ELSE OriginalQuery]]

\* the error of the last attempt thrown instead of the primary one
AllFailed_LastError(f) ==
  [f EXCEPT !.pc = "rejected",
            !.error = [code |-> f.attempts[Len(f.attempts)].code,
                       by |-> Len(f.attempts)]]

\* throw error: the error object caught from the primary retrieve
AllFailed(f) ==
  [f EXCEPT !.pc = "rejected",
            !.error = [code |-> f.attempts[1].code, by |-> 1]]

CanRelax(f) ==
  f.attempts[1].code = "EmptyResults" /\ f.relax /\ f.filters # NoFilters

CanExpand(f) == f.attempts[1].code = "EmptyResults" /\ f.expand

\* after the relaxation block: the first expanded query, or the final throw
AfterRelaxation(f) ==
  IF CanExpand(f) /\ f.expansions >= 1
  THEN [f EXCEPT !.pc = "expand", !.index = 1]
  ELSE AllFailed(f)

InitFallback ==
  /\ tables = NoTable
  /\ IdleStore
  /\ ret = NoRet
  /\ asm = NoAsm
  /\ emb = NoEmb
  /\ inflight = <<>>
  /\ ecb = NoEcb
  /\ ck = NoCk
  /\ ing = NoIng
  /\ md = NoMd
  /\ wc = NoWc
  /\ rag = NoRag
  /\ tool = NoTool
  /\ \E filters \in Filters, relax \in BOOLEAN, expand \in BOOLEAN,
        expansions \in 0..MaxExpansions, retries \in FallbackRetries :
       fb = [pc |-> "primary", query |-> <<>>, filters |-> filters, relax |-> relax,
             maxRetries |-> retries,
             expand |-> expand, expansions |-> expansions, index |-> 0,
             attempts |-> <<>>, out |-> <<>>, error |-> <<>>]

\* the primary retrieve(query, filters) settles
PrimaryReturns(outcome) ==
  /\ fb.pc = "primary"
  /\ LET f == [fb EXCEPT !.attempts = <<Attempt(OriginalQuery, fb.filters, outcome)>>]
     IN fb' = IF outcome = "chunks" THEN FallbackResult(f, FALSE, "undefined")
              ELSE IF outcome \notin RetrievalErrorCodes THEN AllFailed(f)
              ELSE IF CanRelax(f) THEN [f EXCEPT !.pc = "relax", !.index = 1]
              ELSE AfterRelaxation(f)
  /\ UNCHANGED <<storeVars, retVars, asmVars, embVars, ckVars, ingVars, mdVars, wcVars, ragVars, toolVars>>

\* the retrieve of the current relaxation strategy settles
RelaxedReturns(outcome) ==
  /\ fb.pc = "relax"
  /\ LET relaxed == relaxationStrategies(fb.filters)[fb.index]
         f == [fb EXCEPT !.attempts = Append(@, Attempt(OriginalQuery, relaxed, outcome))]
     IN fb' = IF outcome = "chunks"
              THEN FallbackResult(f, TRUE, StrategyNames[fb.index])
              ELSE IF fb.index < Len(StrategyNames)
                THEN [f EXCEPT !.index = fb.index + 1]
              ELSE AfterRelaxation(f)
  /\ UNCHANGED <<storeVars, retVars, asmVars, embVars, ckVars, ingVars, mdVars, wcVars, ragVars, toolVars>>

\* the retrieve of the current expanded query settles
ExpandedReturns(outcome) ==
  /\ fb.pc = "expand"
  /\ LET f == [fb EXCEPT !.attempts = Append(@, Attempt(fb.index, fb.filters, outcome))]
     IN fb' = IF outcome = "chunks" THEN FallbackResult(f, TRUE, "expanded query")
              ELSE IF fb.index < fb.expansions
                THEN [f EXCEPT !.index = fb.index + 1]
              ELSE AllFailed(f)
  /\ UNCHANGED <<storeVars, retVars, asmVars, embVars, ckVars, ingVars, mdVars, wcVars, ragVars, toolVars>>

NextFallback ==
  \/ \E outcome \in PrimaryOutcomes : PrimaryReturns(outcome)
  \/ \E outcome \in FallbackOutcomes : RelaxedReturns(outcome)
  \/ \E outcome \in FallbackOutcomes : ExpandedReturns(outcome)

SpecFallback == InitFallback /\ [][NextFallback]_vars

\* the relaxation the specification names for the j-th fallback attempt
C11_Expected(filters, j) ==
  CASE j = 1 -> filters \ {"dateAfter", "dateBefore"}
    [] j = 2 -> filters \ {"section"}
    [] j = 3 -> filters \ {"source"}
    [] j = 4 -> NoFilters

C11_Names(j) ==
  CASE j = 1 -> "removed date filters"
    [] j = 2 -> "removed section filters"
    [] j = 3 -> "removed source filters"
    [] j = 4 -> "removed all filters"

C12_OriginalErrorPropagates ==
  /\ fb.pc = "rejected" =>
       /\ \A j \in 1..Len(fb.attempts) : ~fb.attempts[j].ok
       /\ fb.error = [code |-> fb.attempts[1].code, by |-> 1]
  /\ fb.pc = "resolved" =>
       /\ fb.out.chunks \in 1..Len(fb.attempts)
       /\ fb.attempts[fb.out.chunks].ok

\* every relaxation and an expanded query failed, the last one with another
\* error than the primary retrieval
C12_Witness ==
  /\ fb.pc = "rejected"
  /\ Len(fb.attempts) >= 6
  /\ fb.attempts[Len(fb.attempts)].code = "DatabaseError"
  /\ fb.error.code = "EmptyResults"

\* ------------------------------------------------------------------
\* Chunker without overlap, on texts that have short words as well
\* ------------------------------------------------------------------
ShortWordDocs ==
  {Expand(tokens) : tokens \in SeqsUpTo(DocTokens \cup {"A"}, MaxDocLen)}

InitChunkNoOverlap ==
  /\ tables = NoTable
  /\ IdleStore
  /\ ret = NoRet
  /\ asm = NoAsm
  /\ emb = NoEmb
  /\ inflight = <<>>
  /\ ecb = NoEcb
  /\ fb = NoFb
  /\ ing = NoIng
  /\ md = NoMd
  /\ wc = NoWc
  /\ rag = NoRag
  /\ tool = NoTool
  /\ \E text \in ShortWordDocs, strategy \in Strategies, maxTokens \in MaxTokenCaps :
       ck = [pc |-> "call", text |-> text, strategy |-> strategy,
             overlapRatio |-> 0, maxTokens |-> maxTokens, chunks |-> <<>>]

SpecChunkNoOverlap == InitChunkNoOverlap /\ [][NextChunk]_vars

\* the words of a text in their order, whatever separates them
WordsIn(text) == SelectSeq(text, LAMBDA c : c \in {"w", "a"})

RECURSIVE AllChunkWords(_)
AllChunkWords(chunks) ==
  IF chunks = <<>> THEN <<>>
  ELSE WordsIn(Head(chunks).text) \o AllChunkWords(Tail(chunks))

\* a is what is left of b when some elements of b are taken out
RECURSIVE IsSubsequence(_, _)
IsSubsequence(a, b) ==
  IF a = <<>> THEN TRUE
  ELSE IF b = <<>> THEN FALSE
  ELSE IF Head(a) = Head(b) THEN IsSubsequence(Tail(a), Tail(b))
  ELSE IsSubsequence(a, Tail(b))

\* C13: with overlapRatio = 0 the chunks returned by splitIntoChunks, taken in
\* seq order, hold every word of the source text in source order: no unit of
\* the source (section, paragraph, sentence or word) is missing from all
\* chunks.
C13_NoUnitDropped ==
  (ck.pc = "done" /\ ck.overlapRatio = 0) =>
    IsSubsequence(WordsIn(ck.text), AllChunkWords(ck.chunks))

\* C14: in a list returned by splitIntoChunks the chunk at position i
\* (counted from 0) has seq = i and the id docId_chunk_ followed by seq padded
\* with zeros to 4 digits, the ids are pairwise distinct and every tokens
\* value is positive.
C14_SeqIdTokens ==
  ck.pc = "done" =>
    /\ \A i \in 1..Len(ck.chunks) :
         /\ ck.chunks[i].seq = i - 1
         /\ i <= 10 =>
              ck.chunks[i].id = <<DocId, "_chunk_", "0", "0", "0", DecimalDigits[i]>>
         /\ ck.chunks[i].tokens > 0
    /\ \A i, j \in 1..Len(ck.chunks) :
         i # j => ck.chunks[i].id # ck.chunks[j].id

\* a call that returned several chunks after a piece over the cap was split
\* again and a short piece was removed
C14_Witness ==
  /\ ck.pc = "done"
  /\ Len(ck.chunks) >= 2
  /\ LET pieces == ByStrategy(ck.text, ck.strategy, ck.overlapRatio, ck.maxTokens)
         capped == TokenCapFallback(pieces.chunks, ck.maxTokens)
     IN /\ Len(capped.chunks) > Len(pieces.chunks)
        /\ Len(capped.chunks) > Len(ck.chunks)

\* ------------------------------------------------------------------
\* Chunker with the default options: overlapRatio 0.1, maxTokens 512
\* ------------------------------------------------------------------
DefaultOverlapRatio == 1   \* overlapRatio: 0.1, in tenths
DefaultMaxTokens == 512    \* maxTokens: 512

InitChunkDefaults ==
  /\ tables = NoTable
  /\ IdleStore
  /\ ret = NoRet
  /\ asm = NoAsm
  /\ emb = NoEmb
  /\ inflight = <<>>
  /\ ecb = NoEcb
  /\ fb = NoFb
  /\ ing = NoIng
  /\ md = NoMd
  /\ wc = NoWc
  /\ rag = NoRag
  /\ tool = NoTool
  /\ \E text \in Docs, strategy \in Strategies :
       ck = [pc |-> "call", text |-> text, strategy |-> strategy,
             overlapRatio |-> DefaultOverlapRatio, maxTokens |-> DefaultMaxTokens,
             chunks |-> <<>>]

SpecChunkDefaults == InitChunkDefaults /\ [][NextChunk]_vars

\* the blank-line-separated paragraphs of a text
ParagraphsOf(text) == NonBlank(SplitParagraphs(text))

\* the scenario of C15: the paragraph strategy with the default options has
\* returned for a text without headings that has exactly 3 paragraphs of at
\* least 10 characters and is under maxTokens as a whole
C15_Scenario ==
  /\ ck.pc = "done"
  /\ ck.strategy = "paragraph"
  /\ ck.overlapRatio = DefaultOverlapRatio
  /\ ck.maxTokens = DefaultMaxTokens
  /\ \A q \in 1..Len(ck.text) : ~IsHeaderAt(ck.text, q)
  /\ Len(ParagraphsOf(ck.text)) = 3
  /\ \A i \in 1..3 : StrLen(trim(ParagraphsOf(ck.text)[i])) >= 10
  /\ estimateTokens(ck.text) < ck.maxTokens

\* C15 as stated: the scenario returns exactly 1 chunk.
C15_ThreeParagraphsOneChunk == C15_Scenario => Len(ck.chunks) = 1

\* C15 as the code has it: the scenario returns exactly 3 chunks, the windows
\* of 2 paragraphs that start at the first, the second and the third
\* paragraph.
C15_ThreeParagraphsThreeChunks ==
  C15_Scenario =>
    LET p == ParagraphsOf(ck.text)
    IN /\ Len(ck.chunks) = 3
       /\ ck.chunks[1].text = trim(p[1] \o <<NL, NL>> \o p[2])
       /\ ck.chunks[2].text = trim(p[2] \o <<NL, NL>> \o p[3])
       /\ ck.chunks[3].text = trim(p[3])

C15_Witness == C15_Scenario /\ Len(ck.chunks) = 3

\* the heading-delimited sections of a text
SectionsOf(text) == NonBlank(SplitSections(text))

\* C16: for a text with n >= 2 sections the section strategy emits, before
\* post-processing, exactly n windows, and window i (counted from 0) is made
\* of the sections max(0, i - overlapCount) up to but excluding min(n, i + 2),
\* joined by a line feed, where overlapCount = floor(n x overlapRatio).
C16_SectionWindows ==
  (ck.pc \in {"done", "hung"} /\ ck.strategy = "section"
   /\ Len(SectionsOf(ck.text)) >= 2) =>
    LET sections == SectionsOf(ck.text)
        n == Len(sections)
        overlapCount == (n * ck.overlapRatio) \div 10
        windows == splitBySection(ck.text, ck.overlapRatio)
    IN /\ ~windows.hang
       /\ Len(windows.chunks) = n
       /\ \A i \in 0..(n - 1) :
            windows.chunks[i + 1] =
              Join(SubSeq(sections, Max(0, i - overlapCount) + 1, Min(n, i + 2)),
                   <<NL>>)

\* C17: the chunks assembleContext returns are the first chunks of the input
\* filtered by minScore, sorted by descending score and cut to maxChunks (the
\* first one possibly truncated); the selection ends at the first chunk that
\* does not fit, whatever follows it; and 5 chunks of 200 tokens with
\* tokenBudget = 500 and reservedTokens = 150 give exactly 1 chunk,
\* truncated = false and totalTokens <= 350.
C17_GreedyPrefix ==
  asm.pc = "done" =>
    LET valid == validChunks(asm.chunks, asm.opts)
        out == asm.out.chunks
        m == Len(out)
    IN /\ IsSortedDesc(valid)
       /\ \A i \in 1..Len(valid) : valid[i].score >= asm.opts.minScore
       /\ m <= Len(valid)
       /\ ~asm.out.truncated => \A i \in 1..m : out[i] = valid[i]
       /\ asm.out.truncated =>
            /\ m = 1
            /\ out[1].score = valid[1].score
            /\ out[1].idLen = valid[1].idLen
       /\ (~asm.out.truncated /\ m < Len(valid)) =>
            asm.out.totalTokens + valid[m + 1].tokens
              + CitationTokens(valid[m + 1], asm.opts) > availableTokens(asm.opts)
       /\ (/\ Len(asm.chunks) = 5
           /\ \A i \in 1..5 : /\ asm.chunks[i].tokens = 200
                              /\ asm.chunks[i].score >= asm.opts.minScore
           /\ asm.opts.tokenBudget = 500
           /\ asm.opts.reservedTokens = 150) =>
            /\ m = 1
            /\ ~asm.out.truncated
            /\ asm.out.totalTokens <= 350

\* one chunk was selected, the second one did not fit and the third one,
\* which would have fit in what was left, was not selected
C17_Witness ==
  /\ asm.pc = "done"
  /\ ~asm.out.truncated
  /\ Len(asm.out.chunks) = 1
  /\ LET valid == validChunks(asm.chunks, asm.opts)
     IN /\ Len(valid) = 3
        /\ asm.out.totalTokens + valid[3].tokens + CitationTokens(valid[3], asm.opts)
             <= availableTokens(asm.opts)

\* C18: truncated = true only with exactly one returned chunk, made from the
\* highest-scoring candidate, which did not fit whole while more than 50
\* tokens were left after its citation overhead; in every other outcome
\* truncated = false and every returned chunk is an input chunk, its text and
\* tokens unmodified.
C18_TruncationOnlyOfFirst ==
  asm.pc = "done" =>
    LET valid == validChunks(asm.chunks, asm.opts)
        out == asm.out.chunks
    IN /\ asm.out.truncated =>
            /\ Len(out) = 1
            /\ out[1].score = valid[1].score
            /\ out[1].idLen = valid[1].idLen
            /\ \A i \in 1..Len(asm.chunks) :
                 asm.chunks[i].score >= asm.opts.minScore
                   => asm.chunks[i].score <= out[1].score
            /\ valid[1].tokens + CitationTokens(valid[1], asm.opts)
                 > availableTokens(asm.opts)
            /\ availableTokens(asm.opts) - CitationTokens(valid[1], asm.opts) > 50
       /\ ~asm.out.truncated =>
            \A i \in 1..Len(out) :
              /\ ~out[i].cut
              /\ \E j \in 1..Len(asm.chunks) : out[i] = asm.chunks[j]

\* the best of several candidates was returned truncated, a lower-scoring
\* one that would have fit whole was not returned
C18_Witness ==
  /\ asm.pc = "done"
  /\ asm.out.truncated
  /\ Len(asm.out.chunks) = 1
  /\ asm.out.chunks[1].cut
  /\ \E j \in 1..Len(asm.chunks) :
       /\ asm.chunks[j].score < asm.out.chunks[1].score
       /\ asm.chunks[j].score >= asm.opts.minScore
       /\ asm.chunks[j].tokens + CitationTokens(asm.chunks[j], asm.opts)
            <= availableTokens(asm.opts)

\* C19: when upsertEmbeddings is given more than 100 records and its delete
\* and insert steps have succeeded, the call does not reject: a failure of
\* the optimize step is not passed on to the caller.
C19_OptimizeFailureTolerated ==
  (up.added /\ Len(up.recs) + up.extra > OptimizeThreshold) => up.pc # "failed"

FileFailures == {"detectMime throws", "parseDocument throws", "cleanText throws",
                 "splitIntoChunks throws"}

FileOutcomes == FileFailures \cup {"too short", "no chunks", "chunks"}

\* extractMetadataHybrid is reached once the text is cleaned and long enough
ReachesMetadata(outcome) == outcome \in {"splitIntoChunks throws", "no chunks", "chunks"}

\* the end of processFiles: the embedding stage when it is enabled and there
\* are chunks, the summary otherwise
AfterFiles(g) ==
  IF Len(g.log) < g.n THEN g
  ELSE IF g.embedAndStore /\ g.totalChunks > 0 THEN [g EXCEPT !.pc = "embed"]
  ELSE [g EXCEPT !.pc = "returned"]

InitIngest ==
  /\ tables = NoTable
  /\ IdleStore
  /\ ret = NoRet
  /\ asm = NoAsm
  /\ emb = NoEmb
  /\ inflight = <<>>
  /\ ecb = NoEcb
  /\ ck = NoCk
  /\ fb = NoFb
  /\ md = NoMd
  /\ wc = NoWc
  /\ rag = NoRag
  /\ tool = NoTool
  /\ \E n \in 0..MaxFiles, embedAndStore \in BOOLEAN :
       ing = [pc |-> "discover", n |-> n, embedAndStore |-> embedAndStore,
              log |-> <<>>, errors |-> <<>>, processedFiles |-> 0, totalChunks |-> 0,
              embeddedChunks |-> 0, storedChunks |-> 0]

\* discoverFiles, and the check that some file was found
DiscoverFiles(ok) ==
  /\ ing.pc = "discover"
  /\ ing' = IF ok /\ ing.n > 0 THEN [ing EXCEPT !.pc = "files"]
            ELSE [ing EXCEPT !.pc = "rejected"]
  /\ UNCHANGED <<storeVars, retVars, asmVars, embVars, ckVars, fbVars, mdVars, wcVars, ragVars, toolVars>>

\* the loop left at the first file that fails
ProcessFile_StopOnError(outcome, metadataOk) ==
  /\ ing.pc = "files"
  /\ metadataOk \/ ReachesMetadata(outcome)
  /\ LET file == Len(ing.log) + 1
         g == [ing EXCEPT
                 !.log = Append(@, [outcome |-> outcome, metadataOk |-> metadataOk]),
                 !.errors = IF outcome \in FileFailures THEN Append(@, file) ELSE @,
                 !.processedFiles = IF outcome = "chunks" THEN @ + 1 ELSE @,
                 !.totalChunks = IF outcome = "chunks" THEN @ + 1 ELSE @]
     IN ing' = IF outcome \in FileFailures THEN [g EXCEPT !.pc = "returned"]
               ELSE AfterFiles(g)
  /\ UNCHANGED <<storeVars, retVars, asmVars, embVars, ckVars, fbVars, mdVars, wcVars, ragVars, toolVars>>

\* one pass through the body of the loop over files; after the last file the
\* function goes on to the embedding stage or to the summary
ProcessFile(outcome, metadataOk) ==
  /\ ing.pc = "files"
  /\ metadataOk \/ ReachesMetadata(outcome)
  /\ LET file == Len(ing.log) + 1
         g == [ing EXCEPT
                 !.log = Append(@, [outcome |-> outcome, metadataOk |-> metadataOk]),
                 !.errors = IF outcome \in FileFailures THEN Append(@, file) ELSE @,
                 !.processedFiles = IF outcome = "chunks" THEN @ + 1 ELSE @,
                 !.totalChunks = IF outcome = "chunks" THEN @ + 1 ELSE @]
     IN ing' = AfterFiles(g)
  /\ UNCHANGED <<storeVars, retVars, asmVars, embVars, ckVars, fbVars, mdVars, wcVars, ragVars, toolVars>>

\* upsertEmbeddingsInBatches(tableName, records, 500): the number of
\* upsertEmbeddings calls it makes when none fails
UpsertBatches(n) ==
  IF n <= UpsertBatchSize THEN 1 ELSE CeilDiv(n, UpsertBatchSize)

\* the records in the table after the batches before batch failAt were
\* written (failAt = 0: no batch failed)
WrittenBy(n, failAt) ==
  IF failAt = 0 THEN n ELSE (failAt - 1) * UpsertBatchSize

\* embedChunksInBatches and upsertEmbeddingsInBatches inside their try:
\* embedded records come back from the embedding stage (a failed batch is
\* skipped there), the upsert runs batch by batch and throws at the first
\* batch that fails; the catch adds the entry 'embedding-pipeline' (file 0)
\* to the errors
EmbedAndStore(embedded, failAt, dim) ==
  /\ ing.pc = "embed"
  /\ embedded \in 0..ing.totalChunks
  /\ failAt \in (IF embedded = 0 THEN {0} ELSE 0..UpsertBatches(embedded))
  /\ ing' = [ing EXCEPT !.pc = "returned",
                        !.embeddedChunks = embedded,
                        !.storedChunks = IF failAt = 0 THEN embedded ELSE 0,
                        !.errors = IF failAt = 0 THEN @ ELSE Append(@, 0)]
  /\ tables' = IF WrittenBy(embedded, failAt) = 0 THEN tables
               ELSE AddRecs(GetOrCreateTable(tables, dim, TRUE).table, <<>>, 0,
                            WrittenBy(embedded, failAt))
  /\ UNCHANGED <<up, got, prev, calls>>
  /\ UNCHANGED <<retVars, asmVars, embVars, ckVars, fbVars, mdVars, wcVars, ragVars,
                 toolVars>>

NextIngest ==
  \/ \E ok \in BOOLEAN : DiscoverFiles(ok)
  \/ \E outcome \in FileOutcomes, metadataOk \in BOOLEAN : ProcessFile(outcome, metadataOk)
  \/ \E embedded \in 0..MaxFiles, failAt \in 0..MaxFiles, dim \in Dims :
       EmbedAndStore(embedded, failAt, dim)

SpecIngest == InitIngest /\ [][NextIngest]_vars

\* the number of entries of summary.errors for a file
ErrorsFor(file) == Cardinality({e \in 1..Len(ing.errors) : ing.errors[e] = file})

\* C21: a file whose type detection, parsing, cleaning or chunking fails has
\* exactly one entry in summary.errors, a file without such a failure has
\* none whether or not its metadata extraction failed; the run goes on to
\* every other file and does not reject once the files were discovered; a
\* file that gave chunks counts as processed even when its metadata
\* extraction failed.
C21_FileFailuresIsolated ==
  /\ \A file \in 1..Len(ing.log) :
       ErrorsFor(file) = (IF ing.log[file].outcome \in FileFailures THEN 1 ELSE 0)
  /\ ing.pc \in {"embed", "returned"} => Len(ing.log) = ing.n
  /\ ing.pc = "rejected" => ing.log = <<>>
  /\ ing.processedFiles =
       Cardinality({file \in 1..Len(ing.log) : ing.log[file].outcome = "chunks"})

\* a run that returned after its first file failed to parse, its second file
\* gave chunks although its metadata extraction failed, and its third file
\* gave chunks
C21_Witness ==
  /\ ing.pc = "returned"
  /\ Len(ing.log) = 3
  /\ ing.log[1].outcome = "parseDocument throws"
  /\ ing.log[2] = [outcome |-> "chunks", metadataOk |-> FALSE]
  /\ ing.log[3].outcome = "chunks"
  /\ ing.errors = <<1>>

\* ------------------------------------------------------------------
\* retrieve: the shape of its rejections
\* ------------------------------------------------------------------

\* the codes of the retrieve model: enum RetrievalErrorCode, with the
\* "Table '...' not found" message of DatabaseError kept apart
RetrieveCodes ==
  RetrievalErrorCodes \cup {"DatabaseError:TableNotFound"}

\* C22: every rejection of retrieve is a RetrievalError with a code and at
\* least one suggestion, a raw provider or store exception never escapes, and
\* an empty or whitespace-only query is rejected with InvalidQuery before the
\* embedding provider or the store has been called.
C22_RejectionsAreRetrievalErrors ==
  /\ ret.pc = "rejected" =>
       /\ ret.code \in RetrieveCodes
       /\ ret.suggestions > 0
  /\ ret.query \in {"empty", "blank"} =>
       /\ ret.pc = "rejected"
       /\ ret.code = "InvalidQuery"
       /\ ret.called = {}

\* a store exception raised by the search was caught and wrapped
C22_Witness ==
  /\ ret.pc = "rejected"
  /\ ret.query = "text"
  /\ ret.code = "FilterMismatch"
  /\ "search" \in ret.called

\* C23: retrieve called with the name of a table that does not exist rejects
\* with the table-not-found RetrievalError (which suggests running ingestion
\* first), whenever the store raised no other exception during the call.
C23_MissingTableReported ==
  ( /\ "table" \in ret.called
    /\ ~got.existed
    /\ ret.code \notin {"DatabaseError", "FilterMismatch"} ) =>
    /\ ret.pc = "rejected"
    /\ ret.code = "DatabaseError:TableNotFound"

\* ------------------------------------------------------------------
\* retrieveWithFallback on queries: expandQuery
\* ------------------------------------------------------------------
MaxQueryLen == 3

\* the whitespace-separated pieces a query is made of
QueryTokens == {"What", "the", "Refund", "policy", "late-fees"}

Queries == SeqsUpTo(QueryTokens, MaxQueryLen)

\* String.prototype.toLowerCase on a piece
toLowerCase(tok) ==
  CASE tok = "What" -> "what"
    [] tok = "Refund" -> "refund"
    [] OTHER -> tok

\* .replace(/[^\w\s]/g, ' ').split(/\s+/) on a piece: the words it holds
SplitWords(tok) ==
  IF tok = "late-fees" THEN <<"late", "fees">> ELSE <<tok>>

\* word.length
WordLength(word) ==
  CASE word = "the" -> 3
    [] word \in {"what", "What", "late", "fees"} -> 4
    [] word \in {"refund", "Refund", "policy"} -> 6

StopWords ==
  {"what", "when", "where", "how", "why", "the", "and", "or", "but", "for", "with"}

RECURSIVE WordsOfQuery(_)
WordsOfQuery(query) ==
  IF query = <<>> THEN <<>>
  ELSE SplitWords(toLowerCase(Head(query))) \o WordsOfQuery(Tail(query))

\* every important word tried on its own
expandQuery_NoSlice(query) ==
  LET words == SelectSeq(WordsOfQuery(query), LAMBDA w : WordLength(w) > 3)
      importantWords == SelectSeq(words, LAMBDA w : w \notin StopWords)
  IN [i \in 1..Len(importantWords) |-> <<importantWords[i]>>]
     \o [i \in 1..Max(0, Min(2, Len(importantWords) - 1)) |->
           <<importantWords[i], importantWords[i + 1]>>]

\* expandQuery: an expansion is the sequence of its words
expandQuery(query) ==
  LET words == SelectSeq(WordsOfQuery(query), LAMBDA w : WordLength(w) > 3)
      importantWords == SelectSeq(words, LAMBDA w : w \notin StopWords)
  IN [i \in 1..Min(3, Len(importantWords)) |-> <<importantWords[i]>>]
     \o [i \in 1..Max(0, Min(2, Len(importantWords) - 1)) |->
           <<importantWords[i], importantWords[i + 1]>>]

InitFallbackQuery ==
  /\ tables = NoTable
  /\ IdleStore
  /\ ret = NoRet
  /\ asm = NoAsm
  /\ emb = NoEmb
  /\ inflight = <<>>
  /\ ecb = NoEcb
  /\ ck = NoCk
  /\ ing = NoIng
  /\ md = NoMd
  /\ wc = NoWc
  /\ rag = NoRag
  /\ tool = NoTool
  /\ \E query \in Queries, filters \in Filters, relax \in BOOLEAN, expand \in BOOLEAN :
       fb = [pc |-> "primary", query |-> query, filters |-> filters, relax |-> relax,
             maxRetries |-> DefaultMaxRetries,
             expand |-> expand, expansions |-> Len(expandQuery(query)), index |-> 0,
             attempts |-> <<>>, out |-> <<>>, error |-> <<>>]

\* a fallback attempt finds chunks or finds none
QueryFallbackOutcomes == {"chunks", "EmptyResults"}

NextFallbackQuery ==
  \/ \E outcome \in PrimaryOutcomes : PrimaryReturns(outcome)
  \/ \E outcome \in QueryFallbackOutcomes : RelaxedReturns(outcome)
  \/ \E outcome \in QueryFallbackOutcomes : ExpandedReturns(outcome)

SpecFallbackQuery == InitFallbackQuery /\ [][NextFallbackQuery]_vars

\* the lower-cased words of the query longer than 3 characters that are not
\* stop words, in query order
C24_Important(query) ==
  SelectSeq(WordsOfQuery(query),
            LAMBDA w : WordLength(w) > 3 /\ w \notin StopWords)

\* each of the first three important words, then each adjacent pair of them
C24_Expected(query) ==
  LET first == SubSeq(C24_Important(query), 1, Min(3, Len(C24_Important(query))))
  IN [i \in 1..Len(first) |-> <<first[i]>>]
     \o [i \in 1..Max(0, Len(first) - 1) |-> <<first[i], first[i + 1]>>]

\* the attempts made with an expanded query
C24_Expanded == SelectSeq(fb.attempts, LAMBDA a : a.query # OriginalQuery)

\* C24: query expansion happens only when it is enabled, the primary error
\* was EmptyResults and no relaxation attempt succeeded; the expanded queries
\* are at most 3 important words of the query, one at a time in query order,
\* then the adjacent pairs of those words; they are tried in that order after
\* every attempt with the original query, nothing is tried after a success,
\* and a success is reported with the expanded query that was used.
C24_ExpansionOrder ==
  LET n == Len(fb.attempts)
      e == Len(C24_Expanded)
  IN /\ expandQuery(fb.query) = C24_Expected(fb.query)
     /\ e <= Len(C24_Expected(fb.query))
     /\ e >= 1 =>
          /\ fb.expand
          /\ fb.attempts[1].code = "EmptyResults"
          /\ \A j \in 1..(n - 1) : ~fb.attempts[j].ok
          /\ \A j \in 1..e :
               /\ fb.attempts[n - e + j].query = j
               /\ fb.attempts[n - e + j].filters = fb.filters
          /\ (fb.pc = "resolved") =>
               /\ fb.attempts[n].ok
               /\ fb.out.chunks = n
               /\ fb.out.fallbackUsed
               /\ fb.out.fallbackStrategy = "expanded query"
               /\ fb.out.expandedTo = e
     /\ (fb.pc = "rejected" /\ fb.expand /\ fb.attempts[1].code = "EmptyResults") =>
          e = Len(C24_Expected(fb.query))

\* the three single words failed and the first pair found chunks, for a query
\* of four important words, after the relaxations had failed
C24_Witness ==
  /\ fb.pc = "resolved"
  /\ Len(C24_Important(fb.query)) = 4
  /\ Len(C24_Expanded) = 4
  /\ Len(fb.attempts) = 9
  /\ expandQuery(fb.query)[fb.out.expandedTo] = <<"late", "fees">>

\* ------------------------------------------------------------------
\* buildWhereClause: the text of the predicate
\* ------------------------------------------------------------------
MaxValueLen == 2

\* A filter value is a sequence of pieces: a letter, a single quote, or the
\* text " AND " occurring inside the value. The predicate is a sequence of
\* such pieces and of the fixed pieces of text the function writes.
ValuePieces == {"a", "'", " AND "}

FilterValues == SeqsUpTo(ValuePieces, MaxValueLen)

Undefined == <<"undefined">>          \* a string field that is not set

UndefinedList == <<Undefined>>        \* an array field that is not set

\* the arrays given for section: none, an empty one, one value, two values
SectionLists ==
  {UndefinedList, <<>>} \cup {<<v>> : v \in FilterValues}
    \cup {<<v, w>> : v \in FilterValues, w \in {<<"a">>, <<"'">>}}

RetrievalFilterObjects ==
  [section : SectionLists,
   docId : {UndefinedList, <<<<"a", "'">>>>},
   source : {UndefinedList, <<>>, <<<<"a">>>>},
   dateAfter : {Undefined} \cup FilterValues,
   dateBefore : {Undefined, <<>>, <<"'", "a">>}]

\* the value written as it is
EscapeQuotes_AsIs(value) ==
  value

\* s.replace(/'/g, "''"): every quote of the value written twice
RECURSIVE EscapeQuotes(_)
EscapeQuotes(value) ==
  IF value = <<>> THEN <<>>
  ELSE (IF Head(value) = "'" THEN <<"'", "'">> ELSE <<Head(value)>>)
       \o EscapeQuotes(Tail(value))

\* `'${...}'`
Quoted(value) == <<"'">> \o EscapeQuotes(value) \o <<"'">>

\* list.map(quote).join(', ')
RECURSIVE QuotedList(_)
QuotedList(list) ==
  IF Len(list) = 1 THEN Quoted(list[1])
  ELSE Quoted(list[1]) \o <<", ">> \o QuotedList(Tail(list))

\* filters.section && filters.section.length > 0
ListGiven(list) == list # UndefinedList /\ Len(list) > 0

\* filters.dateAfter: set and not the empty string
StringGiven(value) == value # Undefined /\ value # <<>>

\* the array conditions, in the order of the pushes
Conditions(filters) ==
  (IF ListGiven(filters.section)
     THEN << <<"section IN (">> \o QuotedList(filters.section) \o <<")">> >> ELSE <<>>)
  \o (IF ListGiven(filters.docId)
     THEN << <<"docId IN (">> \o QuotedList(filters.docId) \o <<")">> >> ELSE <<>>)
  \o (IF ListGiven(filters.source)
     THEN << <<"source IN (">> \o QuotedList(filters.source) \o <<")">> >> ELSE <<>>)
  \o (IF StringGiven(filters.dateAfter)
     THEN << <<"date >= ">> \o Quoted(filters.dateAfter) >> ELSE <<>>)
  \o (IF StringGiven(filters.dateBefore)
     THEN << <<"date <= ">> \o Quoted(filters.dateBefore) >> ELSE <<>>)

\* conditions.join(' AND ')
RECURSIVE JoinAnd(_)
JoinAnd(conditions) ==
  IF Len(conditions) = 1 THEN conditions[1]
  ELSE conditions[1] \o <<" AND ">> \o JoinAnd(Tail(conditions))

NoClause == <<>>                      \* null

\* buildWhereClause(filters), for a filters object that is given
WhereClauseText(filters) ==
  IF Len(Conditions(filters)) > 0 THEN JoinAnd(Conditions(filters)) ELSE NoClause

InitWhere ==
  /\ tables = NoTable
  /\ IdleStore
  /\ ret = NoRet
  /\ asm = NoAsm
  /\ emb = NoEmb
  /\ inflight = <<>>
  /\ ecb = NoEcb
  /\ ck = NoCk
  /\ fb = NoFb
  /\ ing = NoIng
  /\ md = NoMd
  /\ rag = NoRag
  /\ tool = NoTool
  /\ \E filters \in RetrievalFilterObjects :
       wc = [pc |-> "call", filters |-> filters, out |-> <<>>]

BuildWhere ==
  /\ wc.pc = "call"
  /\ wc' = [wc EXCEPT !.pc = "done", !.out = WhereClauseText(wc.filters)]
  /\ UNCHANGED <<storeVars, retVars, asmVars, embVars, ckVars, fbVars, ingVars, mdVars,
               ragVars, toolVars>>

NextWhere == BuildWhere

SpecWhere == InitWhere /\ [][NextWhere]_vars

\* Reading the predicate as SQL. A string literal starts at a quote and ends
\* at the next quote that is not followed by another quote; two quotes in a
\* row inside the literal stand for one quote of the value.
C25_Malformed == <<[field |-> "malformed", values |-> <<>>]>>

RECURSIVE C25_Literal(_, _, _)
C25_Literal(text, i, acc) ==
  IF i > Len(text) THEN [ok |-> FALSE, values |-> <<>>, next |-> 0]
  ELSE IF text[i] = "'"
    THEN IF i + 1 <= Len(text) /\ text[i + 1] = "'"
         THEN C25_Literal(text, i + 2, Append(acc, "'"))
         ELSE [ok |-> TRUE, values |-> <<acc>>, next |-> i + 1]
    ELSE C25_Literal(text, i + 1, Append(acc, text[i]))

\* the literals of an IN list, up to its closing parenthesis
RECURSIVE C25_InList(_, _, _)
C25_InList(text, i, acc) ==
  IF i > Len(text) \/ text[i] # "'" THEN [ok |-> FALSE, values |-> <<>>, next |-> 0]
  ELSE LET lit == C25_Literal(text, i + 1, <<>>)
       IN IF ~lit.ok \/ lit.next > Len(text)
          THEN [ok |-> FALSE, values |-> <<>>, next |-> 0]
          ELSE IF text[lit.next] = ", "
            THEN C25_InList(text, lit.next + 1, acc \o lit.values)
          ELSE IF text[lit.next] = ")"
            THEN [ok |-> TRUE, values |-> acc \o lit.values, next |-> lit.next + 1]
          ELSE [ok |-> FALSE, values |-> <<>>, next |-> 0]

\* the conditions of the predicate, each with the values of its literals
RECURSIVE C25_Parse(_, _, _)
C25_Parse(text, i, acc) ==
  IF i > Len(text) THEN C25_Malformed
  ELSE LET cond ==
             IF text[i] \in {"section IN (", "docId IN (", "source IN ("}
             THEN C25_InList(text, i + 1, <<>>)
             ELSE IF text[i] \in {"date >= ", "date <= "}
                     /\ i + 1 <= Len(text) /\ text[i + 1] = "'"
             THEN C25_Literal(text, i + 2, <<>>)
             ELSE [ok |-> FALSE, values |-> <<>>, next |-> 0]
           all == Append(acc, [field |-> text[i], values |-> cond.values])
       IN IF ~cond.ok THEN C25_Malformed
          ELSE IF cond.next > Len(text) THEN all
          ELSE IF text[cond.next] = " AND " THEN C25_Parse(text, cond.next + 1, all)
          ELSE C25_Malformed

\* one condition per filter field that is present and non-empty, with the
\* values as they were given
C25_Expected(filters) ==
  (IF filters.section \notin {UndefinedList, <<>>}
     THEN <<[field |-> "section IN (", values |-> filters.section]>> ELSE <<>>)
  \o (IF filters.docId \notin {UndefinedList, <<>>}
     THEN <<[field |-> "docId IN (", values |-> filters.docId]>> ELSE <<>>)
  \o (IF filters.source \notin {UndefinedList, <<>>}
     THEN <<[field |-> "source IN (", values |-> filters.source]>> ELSE <<>>)
  \o (IF filters.dateAfter \notin {Undefined, <<>>}
     THEN <<[field |-> "date >= ", values |-> <<filters.dateAfter>>]>> ELSE <<>>)
  \o (IF filters.dateBefore \notin {Undefined, <<>>}
     THEN <<[field |-> "date <= ", values |-> <<filters.dateBefore>>]>> ELSE <<>>)

\* C25: the predicate built from the filters is the conjunction of exactly
\* one condition per present, non-empty field among section, docId, source,
\* dateAfter and dateBefore, and is absent when there is none; every quote of
\* a value is doubled, so that each literal reads back as the value given and
\* no value ends its literal or adds a condition.
C25_PredicateIsConjunction ==
  wc.pc = "done" =>
    IF C25_Expected(wc.filters) = <<>>
    THEN wc.out = NoClause
    ELSE /\ wc.out # NoClause
         /\ C25_Parse(wc.out, 1, <<>>) = C25_Expected(wc.filters)

\* two section values with quotes, one of them followed by the text of a
\* conjunction, and a date with a quote
C25_Witness ==
  /\ wc.pc = "done"
  /\ Len(wc.filters.section) = 2
  /\ wc.filters.section[1] = <<"'", " AND ">>
  /\ wc.filters.section[2] = <<"'">>
  /\ wc.filters.dateAfter = <<"a", "'">>
  /\ wc.filters.dateBefore = <<"'", "a">>

\* ------------------------------------------------------------------
\* Ollama adapter: the service is not reachable
\* ------------------------------------------------------------------

\* C26: in the Ollama adapter, a single-text call whose 5 attempts all failed
\* with a connection error rejects with the error that names the base URL
\* and the model and tells how to pull the model, and embedBatch rejects
\* with that error; before the 5th attempt the call is not rejected.
C26_UnreachableIsActionable ==
  \A slot \in 1..Len(inflight) :
    LET c == inflight[slot]
    IN (emb.adapter = "ollama" /\ c.onlyConn /\ c.answer = "conn") =>
         IF c.requests = maxRetries
         THEN /\ c.pc = "rejected"
              /\ c.error = "OllamaUnavailable"
              /\ emb.pc = "rejected"
              /\ emb.error = "OllamaUnavailable"
         ELSE c.pc = "backoff"

\* five requests, four delays, every answer a failed connection
C26_Witness ==
  /\ emb.adapter = "ollama"
  /\ Len(inflight) = 1
  /\ inflight[1].onlyConn
  /\ inflight[1].answer = "conn"
  /\ inflight[1].requests = maxRetries
  /\ inflight[1].delays = maxRetries - 1
  /\ inflight[1].pc = "rejected"

\* ------------------------------------------------------------------
\* embedChunksInBatches over the Ollama adapter
\* ------------------------------------------------------------------
\* batchSize of embedChunksInBatches: stands for 100, which is more than
\* twice the adapter's 32, scaled down with it
ChunksBatchSize == 2 * OllamaBatchSize

\* the answers of the provider in an ingestion run: a vector, a vector of
\* another length, a server error that is retried after a delay, and from
\* OpenAI an answer with one item too few
IngestionResponses == {"ok", "dim", "http5xx", "short"}

InitEmbedChunks ==
  /\ tables = NoTable
  /\ IdleStore
  /\ ret = NoRet
  /\ asm = NoAsm
  /\ emb = NoEmb
  /\ inflight = <<>>
  /\ \E adapter \in {"ollama", "openai"}, n \in 0..(ChunksBatchSize + OllamaBatchSize) :
       ecb = [pc |-> "loop", adapter |-> adapter, n |-> n, i |-> 0, embedded |-> 0,
              orphans |-> <<>>, results |-> <<>>, skipped |-> {}]
  /\ ck = NoCk
  /\ fb = NoFb
  /\ ing = NoIng
  /\ md = NoMd
  /\ wc = NoWc
  /\ rag = NoRag
  /\ tool = NoTool

\* the loop test, then chunks.slice(i, i + batchSize) and embedChunks(batch)
\* up to adapter.embedBatch(texts)
StartChunkBatch ==
  /\ ecb.pc = "loop"
  /\ IF ecb.i < ecb.n
     THEN /\ ecb' = [ecb EXCEPT !.pc = "await"]
          /\ emb' = [adapter |-> ecb.adapter,
                     n |-> Min(ecb.n, ecb.i + ChunksBatchSize) - ecb.i,
                     pc |-> "call", i |-> 0, results |-> <<>>, error |-> "none"]
     ELSE /\ ecb' = [ecb EXCEPT !.pc = "returned"]
          /\ UNCHANGED emb
  /\ UNCHANGED inflight
  /\ UNCHANGED <<storeVars, retVars, asmVars, ckVars, fbVars, ingVars, mdVars, wcVars, ragVars, toolVars>>

\* the records with the vectors of the batch's own positions, without the
\* offset of the batch in the input
BatchRecords_NoOffset(i, e) ==
  IF e.pc = "resolved" /\ Len(e.results) = e.n
  THEN [j \in 1..e.n |-> [chunk |-> i + j, vector |-> e.results[j]]]
  ELSE <<>>

\* embedChunks(batch) for the batch that starts after chunk i: it throws when
\* embedBatch rejected or gave another number of vectors than chunks, and
\* otherwise pairs chunks[index] with embeddings[index]; chunks and the texts
\* the vectors were made from are numbered by their place in the input
BatchRecords(i, e) ==
  IF e.pc = "resolved" /\ Len(e.results) = e.n
  THEN [j \in 1..e.n |-> [chunk |-> i + j, vector |-> i + e.results[j]]]
  ELSE <<>>

\* await embedChunks(batch) settles: the records are pushed, or the catch
\* logs the failure; either way the loop goes on with i += batchSize. The
\* provider calls of a failed group that have not finished stay behind.
ChunkBatchSettles ==
  /\ ecb.pc = "await"
  /\ emb.pc \in {"resolved", "rejected"}
  /\ ecb' = [ecb EXCEPT !.pc = "loop",
                         !.i = ecb.i + ChunksBatchSize,
                         !.embedded = IF emb.pc = "resolved"
                                      THEN ecb.embedded + Len(emb.results)
                                      ELSE ecb.embedded,
                         !.orphans = ecb.orphans
                                     \o SelectSeq(inflight, LAMBDA c : ~Settled(c)),
                         !.results = ecb.results \o BatchRecords(ecb.i, emb),
                         !.skipped = IF emb.pc = "resolved" /\ Len(emb.results) = emb.n
                                     THEN ecb.skipped
                                     ELSE ecb.skipped \cup {ecb.i}]
  /\ emb' = NoEmb
  /\ inflight' = <<>>
  /\ UNCHANGED <<storeVars, retVars, asmVars, ckVars, fbVars, ingVars, mdVars, wcVars, ragVars, toolVars>>

\* the sequence without its k-th element
RemoveAt(s, k) == SubSeq(s, 1, k - 1) \o SubSeq(s, k + 1, Len(s))

\* a call left behind goes on: its fetch is answered, or its delay is over
OrphanStep(k, c) ==
  /\ ecb' = [ecb EXCEPT !.orphans = IF Settled(c) THEN RemoveAt(ecb.orphans, k)
                                     ELSE [ecb.orphans EXCEPT ![k] = c]]
  /\ UNCHANGED <<emb, inflight>>
  /\ UNCHANGED <<storeVars, retVars, asmVars, ckVars, fbVars, ingVars, mdVars, wcVars, ragVars, toolVars>>

OrphanRespond(k, r) ==
  /\ k \in 1..Len(ecb.orphans)
  /\ ecb.orphans[k].pc = "fetch"
  /\ r \in OllamaResponses
  /\ OrphanStep(k, OnResponse("ollama", ecb.orphans[k], r))

OrphanBackoffDone(k) ==
  /\ k \in 1..Len(ecb.orphans)
  /\ ecb.orphans[k].pc = "backoff"
  /\ OrphanStep(k, AfterBackoff(ecb.orphans[k]))

NextEmbedChunks ==
  \/ StartChunkBatch
  \/ EmbedBatch
  \/ \E slot \in 1..MaxSlots, r \in IngestionResponses : Respond(slot, r)
  \/ \E slot \in 1..MaxSlots : BackoffDone(slot)
  \/ ChunkBatchSettles
  \/ \E k \in 1..ChunksBatchSize, r \in IngestionResponses : OrphanRespond(k, r)
  \/ \E k \in 1..ChunksBatchSize : OrphanBackoffDone(k)

SpecEmbedChunks == InitEmbedChunks /\ [][NextEmbedChunks]_vars

\* the single-text provider calls that have not finished
InFlightCalls ==
  Len(SelectSeq(inflight, LAMBDA c : ~Settled(c))) + Len(ecb.orphans)

\* C27: during an ingestion run with the Ollama adapter the number of
\* single-text provider calls in flight, those waiting in a retry backoff
\* included, never exceeds the adapter's internal batch size.
C27_InFlightBounded ==
  InFlightCalls <= OllamaBatchSize

\* ------------------------------------------------------------------
\* Metadata extractor: extractMetadataHybrid
\* ------------------------------------------------------------------
MaxMdLines == 3

\* A text is a sequence of lines joined by line feeds. A line is one of the
\* pieces below, followed by a full stop or not; LongPiece stands for one
\* word of 249 letters, the first of them a capital.
LongPiece == "Pneumono...osis"

MdPieces ==
  {"", "# Guide", "Title: Refund Policy", "**Date**: January 5, 2024",
   "Released 2023-12-25", "The fees are low",
   "This policy covers all refund fees", "Author: John Smith", LongPiece}

MdLines == [piece : MdPieces, dot : BOOLEAN]

MdTexts == SeqsUpTo(MdLines, MaxMdLines)

\* String.prototype.length of a piece of text, of a capture, of "." and "\n"
PieceLen(p) ==
  CASE p = "" -> 0
    [] p \in {".", NL} -> 1
    [] p = "Guide" -> 5
    [] p = "# Guide" -> 7
    [] p \in {"2023-12-25", "John Smith"} -> 10
    [] p = "Refund Policy" -> 13
    [] p = "January 5, 2024" -> 15
    [] p = "The fees are low" -> 16
    [] p = "Author: John Smith" -> 18
    [] p = "Released 2023-12-25" -> 19
    [] p = "Title: Refund Policy" -> 20
    [] p = "**Date**: January 5, 2024" -> 25
    [] p = "This policy covers all refund fees" -> 34
    [] p = LongPiece -> 249

RECURSIVE MdLen(_)
MdLen(str) ==
  IF str = <<>> THEN 0 ELSE PieceLen(Head(str)) + MdLen(Tail(str))

\* the characters of a line
LineText(line) == IF line.dot THEN <<line.piece, ".">> ELSE <<line.piece>>

IsBlank(line) == line.piece = "" /\ ~line.dot

\* the characters of the lines from..to of the text, line feeds between them
LinesText(text, from, to) ==
  Join([i \in 1..(to - from + 1) |-> LineText(text[from + i - 1])], <<NL>>)

NoMatch == <<"no match">>

\* text.match(pattern) for a pattern that matches inside one line: the
\* capture in the first line of the text that has a match
FirstLineMatch(text, MatchLine(_)) ==
  LET hits == {i \in 1..Len(text) : MatchLine(text[i]) # NoMatch}
  IN IF hits = {} THEN NoMatch
     ELSE MatchLine(text[CHOOSE i \in hits : \A j \in hits : i <= j])

\* datePatterns, by index, on one line
DatePattern(k, line) ==
  IF k \in {1, 5} /\ line.piece = "**Date**: January 5, 2024" THEN <<"January 5, 2024">>
  ELSE IF k = 3 /\ line.piece = "Released 2023-12-25" THEN <<"2023-12-25">>
  ELSE NoMatch

RECURSIVE FirstPattern(_, _, _, _)
FirstPattern(text, Pattern(_, _), k, n) ==
  IF k > n THEN Undefined
  ELSE LET m == FirstLineMatch(text, LAMBDA line : Pattern(k, line))
       IN IF m # NoMatch THEN m ELSE FirstPattern(text, Pattern, k + 1, n)

extractDate(text) == FirstPattern(text, DatePattern, 1, 6)

\* authorPatterns, by index, on one line: the label needs the end of the
\* line right after the name
AuthorPattern(k, line) ==
  IF k = 1 /\ line.piece = "Author: John Smith" /\ ~line.dot THEN <<"John Smith">>
  ELSE NoMatch

extractAuthor(text) == FirstPattern(text, AuthorPattern, 1, 4)

\* the first character of the piece is a capital letter
StartsCapital(piece) ==
  piece \in {"Title: Refund Policy", "Released 2023-12-25", "The fees are low",
             "This policy covers all refund fees", "Author: John Smith", LongPiece}

\* /^([A-Z][^.!?]*[^.!?\s])$/m: from the first line that starts with a capital
\* and has no full stop, over the line feeds, up to the last line before the
\* next full stop that is not blank
CapitalLines(text) ==
  LET starts == {i \in 1..Len(text) : StartsCapital(text[i].piece) /\ ~text[i].dot}
  IN IF starts = {} THEN NoMatch
     ELSE LET from == CHOOSE i \in starts : \A j \in starts : i <= j
              ends == {j \in from..Len(text) :
                         /\ \A m \in from..j : ~text[m].dot
                         /\ text[j].piece # ""}
              to == CHOOSE j \in ends : \A m \in ends : m <= j
          IN LinesText(text, from, to)

\* titlePatterns, by index, on the text
TitlePattern(k, text) ==
  CASE k = 1 -> FirstLineMatch(text, LAMBDA line :
                  IF line.piece = "# Guide" THEN LineText([line EXCEPT !.piece = "Guide"])
                  ELSE NoMatch)
    [] k = 2 -> CapitalLines(text)
    [] k = 3 -> FirstLineMatch(text, LAMBDA line :
                  IF line.piece = "Title: Refund Policy"
                  THEN LineText([line EXCEPT !.piece = "Refund Policy"])
                  ELSE NoMatch)

RECURSIVE TitleFrom(_, _)
TitleFrom(text, k) ==
  IF k > 3 THEN Undefined
  ELSE LET m == TitlePattern(k, text)
       IN IF m # NoMatch /\ MdLen(m) < 100 THEN m ELSE TitleFrom(text, k + 1)

extractTitle(text) == TitleFrom(text, 1)

\* /^([A-Z\s]{3,30})$/m in a text without a line in capitals: four blank
\* lines in a row give it three line feeds to match
BlankRun(text) ==
  \E i \in 1..(Len(text) - 3) : \A j \in i..(i + 3) : IsBlank(text[j])

\* sectionPatterns: the header, the numbered line (none in these texts), the
\* line in capitals
extractSection(text) ==
  LET header == FirstLineMatch(text, LAMBDA line :
                  IF line.piece = "# Guide" THEN LineText([line EXCEPT !.piece = "Guide"])
                  ELSE NoMatch)
  IN IF header # NoMatch THEN header
     ELSE IF BlankRun(text) THEN <<>>
     ELSE Undefined

\* text.toLowerCase().replace(/[^\w\s]/g, ' ').split(/\s+/) on a piece
PieceWords(p) ==
  CASE p = "" -> <<>>
    [] p = "# Guide" -> <<"guide">>
    [] p = "Title: Refund Policy" -> <<"title", "refund", "policy">>
    [] p = "**Date**: January 5, 2024" -> <<"date", "january", "5", "2024">>
    [] p = "Released 2023-12-25" -> <<"released", "2023", "12", "25">>
    [] p = "The fees are low" -> <<"the", "fees", "are", "low">>
    [] p = "This policy covers all refund fees" ->
         <<"this", "policy", "covers", "all", "refund", "fees">>
    [] p = "Author: John Smith" -> <<"author", "john", "smith">>
    [] p = LongPiece -> <<"pneumono...osis">>

\* text.match(/\b[A-Z][a-z]{2,}\b/g) on a piece, each match in lower case
PieceCapitalized(p) ==
  CASE p = "# Guide" -> <<"guide">>
    [] p = "Title: Refund Policy" -> <<"title", "refund", "policy">>
    [] p = "**Date**: January 5, 2024" -> <<"date", "january">>
    [] p = "Released 2023-12-25" -> <<"released">>
    [] p = "The fees are low" -> <<"the">>
    [] p = "This policy covers all refund fees" -> <<"this">>
    [] p = "Author: John Smith" -> <<"author", "john", "smith">>
    [] p = LongPiece -> <<"pneumono...osis">>
    [] OTHER -> <<>>

\* word.length
KeywordLength(word) ==
  CASE word = "5" -> 1
    [] word \in {"12", "25"} -> 2
    [] word \in {"the", "are", "low", "all"} -> 3
    [] word \in {"date", "2024", "2023", "fees", "this", "john"} -> 4
    [] word \in {"guide", "title", "smith"} -> 5
    [] word \in {"refund", "policy", "covers", "author"} -> 6
    [] word = "january" -> 7
    [] word = "released" -> 8
    [] word = "pneumono...osis" -> 249

KeywordStopWords ==
  {"this", "that", "with", "have", "will", "from", "they", "been", "were",
   "said", "each", "which", "their", "time", "would", "there", "could",
   "other", "after", "first", "well", "also", "some", "what", "only",
   "when", "here", "more", "very", "much", "such", "most", "many",
   "these", "those", "than", "them", "into", "over", "just", "like",
   "through", "should", "before", "where", "being", "does", "about"}

RECURSIVE TextWords(_)
TextWords(text) ==
  IF text = <<>> THEN <<>>
  ELSE PieceWords(Head(text).piece) \o TextWords(Tail(text))

RECURSIVE TextCapitalized(_)
TextCapitalized(text) ==
  IF text = <<>> THEN <<>>
  ELSE PieceCapitalized(Head(text).piece) \o TextCapitalized(Tail(text))

\* the words that are counted, in text order
CountedWords(text) ==
  SelectSeq(TextWords(text),
            LAMBDA w : KeywordLength(w) > 3 /\ w \notin KeywordStopWords)

\* the capitalised words that are boosted, in text order
BoostedWords(text) ==
  SelectSeq(TextCapitalized(text), LAMBDA w : w \notin KeywordStopWords)

Occurrences(w, ws) == Cardinality({i \in 1..Len(ws) : ws[i] = w})

\* the value of wordCount for a word
WordCount(text, w) ==
  Occurrences(w, CountedWords(text)) + 2 * Occurrences(w, BoostedWords(text))

\* the keys of a Map in insertion order
RECURSIVE FirstSeen(_, _)
FirstSeen(ws, seen) ==
  IF ws = <<>> THEN seen
  ELSE FirstSeen(Tail(ws), IF \E i \in 1..Len(seen) : seen[i] = Head(ws)
                           THEN seen ELSE Append(seen, Head(ws)))

\* the stable sort by descending count: an entry goes after the entries that
\* count as much or more
RECURSIVE InsertByCount(_, _, _)
InsertByCount(sorted, w, text) ==
  IF sorted = <<>> THEN <<w>>
  ELSE IF WordCount(text, Head(sorted)) >= WordCount(text, w)
    THEN <<Head(sorted)>> \o InsertByCount(Tail(sorted), w, text)
  ELSE <<w>> \o sorted

RECURSIVE SortByCount(_, _)
SortByCount(ws, text) ==
  IF ws = <<>> THEN <<>>
  ELSE InsertByCount(SortByCount(SubSeq(ws, 1, Len(ws) - 1), text), ws[Len(ws)], text)

extractKeywords(text) ==
  LET entries == FirstSeen(CountedWords(text) \o BoostedWords(text), <<>>)
      kept == SelectSeq(entries, LAMBDA w : WordCount(text, w) > 1)
      sorted == SortByCount(kept, text)
  IN SubSeq(sorted, 1, Min(8, Len(sorted)))

\* cleaned.split(/[.!?]+/): the lines of each piece between full stops, a
\* full stop being the last character of its line
RECURSIVE SentenceRanges(_, _, _)
SentenceRanges(text, i, start) ==
  IF i > Len(text) THEN <<[from |-> start, to |-> Len(text)]>>
  ELSE IF text[i].dot
    THEN <<[from |-> start, to |-> i]>> \o SentenceRanges(text, i + 1, i + 1)
  ELSE SentenceRanges(text, i + 1, start)

\* s.trim() for the lines of a sentence: without the blank lines around it
TrimRange(text, r) ==
  LET inked == {i \in r.from..r.to : text[i].piece # ""}
  IN IF inked = {} THEN [from |-> 1, to |-> 0]
     ELSE [from |-> CHOOSE i \in inked : \A j \in inked : i <= j,
           to |-> CHOOSE i \in inked : \A j \in inked : j <= i]

\* the length of a trimmed sentence: its pieces and the line feeds between
SentenceLen(text, r) ==
  IF r.to < r.from THEN 0
  ELSE MdLen([i \in 1..(r.to - r.from + 1) |-> text[r.from + i - 1].piece])
       + (r.to - r.from)

\* cleaned.split(/\n\s*\n/): the runs of lines that are not blank
RECURSIVE ParagraphRanges(_, _, _)
ParagraphRanges(text, i, start) ==
  IF i > Len(text)
  THEN IF start < i THEN <<[from |-> start, to |-> Len(text)]>> ELSE <<>>
  ELSE IF IsBlank(text[i])
    THEN (IF start < i THEN <<[from |-> start, to |-> i - 1]>> ELSE <<>>)
         \o ParagraphRanges(text, i + 1, i + 1)
  ELSE ParagraphRanges(text, i + 1, start)

ParagraphLen(text, r) == MdLen(LinesText(text, r.from, r.to))

NoSummary == [kind |-> "undefined", from |-> 0, to |-> 0, length |-> 0, ellipsis |-> FALSE]

\* extractSummary: the result names the lines it is made of
extractSummary(text) ==
  LET trimmed == [k \in 1..Len(SentenceRanges(text, 1, 1)) |->
                    TrimRange(text, SentenceRanges(text, 1, 1)[k])]
      sentences == SelectSeq(trimmed, LAMBDA r : SentenceLen(text, r) > 20)
      paragraphs == SelectSeq(ParagraphRanges(text, 1, 1),
                              LAMBDA r : ParagraphLen(text, r) > 20)
  IN IF /\ Len(sentences) > 0
        /\ SentenceLen(text, sentences[1]) >= 20
        /\ SentenceLen(text, sentences[1]) <= 200
     THEN [kind |-> "sentence", from |-> sentences[1].from, to |-> sentences[1].to,
           length |-> SentenceLen(text, sentences[1]) + 1, ellipsis |-> FALSE]
     ELSE IF Len(paragraphs) > 0
       THEN IF ParagraphLen(text, paragraphs[1]) <= 300
            THEN [kind |-> "paragraph", from |-> paragraphs[1].from,
                  to |-> paragraphs[1].to,
                  length |-> ParagraphLen(text, paragraphs[1]), ellipsis |-> FALSE]
            ELSE [kind |-> "paragraph", from |-> paragraphs[1].from,
                  to |-> paragraphs[1].to, length |-> 297 + 3, ellipsis |-> TRUE]
     ELSE NoSummary

\* extractMetadataHybrid(text); the entities are left out of the result
ExtractMetadata(text) ==
  [date |-> extractDate(text), author |-> extractAuthor(text),
   title |-> extractTitle(text), section |-> extractSection(text),
   keywords |-> extractKeywords(text), summary |-> extractSummary(text)]

InitMetadata ==
  /\ tables = NoTable
  /\ IdleStore
  /\ ret = NoRet
  /\ asm = NoAsm
  /\ emb = NoEmb
  /\ inflight = <<>>
  /\ ecb = NoEcb
  /\ ck = NoCk
  /\ fb = NoFb
  /\ ing = NoIng
  /\ wc = NoWc
  /\ rag = NoRag
  /\ tool = NoTool
  /\ \E text \in MdTexts : md = [pc |-> "call", text |-> text, out |-> <<>>]

ExtractMetadataHybrid ==
  /\ md.pc = "call"
  /\ md' = [md EXCEPT !.pc = "done", !.out = ExtractMetadata(md.text)]
  /\ UNCHANGED <<storeVars, retVars, asmVars, embVars, ckVars, fbVars, ingVars, wcVars, ragVars, toolVars>>

NextMetadata == ExtractMetadataHybrid

SpecMetadata == InitMetadata /\ [][NextMetadata]_vars

\* C28: when the text has an explicit label for the date, the title or the
\* author (a line "**Date**: X", "Title: X", "Author: X"), the value returned
\* for that field is the labelled one, whatever generic match the text has
\* for the same field.
C28_LabelledValueWins ==
  md.pc = "done" =>
    /\ (\E i \in 1..Len(md.text) : md.text[i].piece = "**Date**: January 5, 2024")
         => md.out.date = <<"January 5, 2024">>
    /\ (\E i \in 1..Len(md.text) : md.text[i].piece = "Title: Refund Policy")
         => md.out.title \in {<<"Refund Policy">>, <<"Refund Policy", ".">>}
    /\ (\E i \in 1..Len(md.text) :
          md.text[i] = [piece |-> "Author: John Smith", dot |-> FALSE])
         => md.out.author = <<"John Smith">>

\* the place of the first occurrence of a word in the text
C29_FirstSeenAt(text, w) ==
  CHOOSE i \in 1..Len(TextWords(text)) :
    /\ TextWords(text)[i] = w
    /\ \A j \in 1..(i - 1) : TextWords(text)[j] # w

\* C29: the keywords are at most 8 words, each longer than 3 characters and
\* not a stop word, each counted more than once (occurrences plus the boost
\* for capitalised occurrences), in descending order of count with ties in
\* first-seen order.
C29_KeywordsShape ==
  md.pc = "done" =>
    LET ks == md.out.keywords
    IN /\ Len(ks) <= 8
       /\ \A i \in 1..Len(ks) :
            /\ KeywordLength(ks[i]) > 3
            /\ ks[i] \notin KeywordStopWords
            /\ WordCount(md.text, ks[i]) > 1
       /\ \A i, j \in 1..Len(ks) :
            i < j =>
              \/ WordCount(md.text, ks[i]) > WordCount(md.text, ks[j])
              \/ /\ WordCount(md.text, ks[i]) = WordCount(md.text, ks[j])
                 /\ C29_FirstSeenAt(md.text, ks[i]) < C29_FirstSeenAt(md.text, ks[j])

\* the sentences of the text, trimmed, that have 20 to 200 characters
C30_Fitting(text) ==
  SelectSeq([k \in 1..Len(SentenceRanges(text, 1, 1)) |->
               TrimRange(text, SentenceRanges(text, 1, 1)[k])],
            LAMBDA r : SentenceLen(text, r) >= 20 /\ SentenceLen(text, r) <= 200)

\* C30: the summary is the first sentence of the text that has 20 to 200
\* characters, whichever place that sentence has; only when the text has no
\* such sentence is it a paragraph, of at most 300 characters.
C30_FirstFittingSentence ==
  md.pc = "done" =>
    IF Len(C30_Fitting(md.text)) > 0
    THEN /\ md.out.summary.kind = "sentence"
         /\ md.out.summary.from = C30_Fitting(md.text)[1].from
         /\ md.out.summary.to = C30_Fitting(md.text)[1].to
    ELSE /\ md.out.summary.kind # "sentence"
         /\ md.out.summary.length <= 300

\* ------------------------------------------------------------------
\* RAGAgent.query
\* ------------------------------------------------------------------
\* chunk ids: two ids of 8 characters, one with a dot in it, and one of 200
\* characters (written "long-id")
RagIds == {"doc-0001", "doc-0002", "doc.v2-0001", "long-id"}

IdLength(id) ==
  CASE id = "doc-0001" -> 8
    [] id = "doc-0002" -> 8
    [] id = "doc.v2-0001" -> 11
    [] id = "long-id" -> 200

RagScore(id) ==
  CASE id = "doc-0001" -> 8
    [] id = "doc-0002" -> 5
    [] id = "doc.v2-0001" -> 3
    [] id = "long-id" -> 9

RagChunk(id, tokens) ==
  [id |-> id, tokens |-> tokens, score |-> RagScore(id), idLen |-> IdLength(id),
   textLen |-> 5 * tokens, cut |-> FALSE]

RagChunks == {RagChunk(id, t) : id \in RagIds, t \in ChunkTokens}

\* what retrieve resolves with: at least one chunk, best score first
RagRetrievals ==
  {r \in SeqsUpTo(RagChunks, MaxBatch) :
     /\ Len(r) >= 1
     /\ \A i \in 1..(Len(r) - 1) : r[i].score > r[i + 1].score}

\* the queries: one that the schema refuses (the empty string), one that
\* checkContentSafety refuses, one that passes both
RagQueries == {"", "how to hack the refund policy", "what is the refund policy"}

\* z.string().min(1)
RAGQuerySchemaAccepts(input) == input.query # ""

\* checkContentSafety on the texts of the model
checkContentSafety(text) == text \notin {"how to hack the refund policy", "unsafe answer"}

RagInputs ==
  [query : RagQueries, k : {1, 10}, tokenBudget : {100, 2000},
   includeCitations : BOOLEAN, modelAlias : {"default", "unknown"}]

\* the pieces of an answer that follow a citation sign
CitedTexts == {"doc-0001", "doc-0002).", "doc.v2-0001", "doc-0099"}

\* what /§([a-zA-Z0-9-_]+)/ captures after the sign
CitationMatch(cited) ==
  CASE cited = "doc-0001" -> "doc-0001"
    [] cited = "doc-0002)." -> "doc-0002"
    [] cited = "doc.v2-0001" -> "doc"
    [] cited = "doc-0099" -> "doc-0099"

\* extractCitations: the captured ids, duplicates removed
extractCitations(answer) == {CitationMatch(c) : c \in answer.cited}

\* what generateText gives: a text with citation marks in it, or a throw
Answers ==
  [text : {"answer", "unsafe answer"}, cited : SUBSET CitedTexts, throws : {FALSE}]
  \cup {[text |-> "none", cited |-> {}, throws |-> TRUE]}

RECURSIVE CitedOf(_, _, _)
CitedOf(chunks, ids, i) ==
  IF i > Len(chunks) THEN <<>>
  ELSE IF chunks[i].id \in ids THEN <<chunks[i].id>> \o CitedOf(chunks, ids, i + 1)
  ELSE CitedOf(chunks, ids, i + 1)

RECURSIVE InSomeOrder(_)
InSomeOrder(S) ==
  IF S = {} THEN <<>>
  ELSE LET x == CHOOSE y \in S : TRUE IN <<x>> \o InSomeOrder(S \ {x})

\* a citation for every id the answer cites, in the context or not
validCitations_Unchecked(contextChunks, citedChunkIds) == InSomeOrder(citedChunkIds)

\* contextResult.chunks.filter(chunk => citedChunkIds.includes(chunk.id)),
\* each citation by its chunkId
validCitations(contextChunks, citedChunkIds) == CitedOf(contextChunks, citedChunkIds, 1)

RagResponse(kind, citations) == [kind |-> kind, citations |-> citations]

\* assembleContext(chunks, {tokenBudget, includeCitations, maxChunks: k})
RagContext(input, chunks) ==
  assembleContext(chunks,
    [tokenBudget |-> input.tokenBudget, reservedTokens |-> 150,
     includeCitations |-> input.includeCitations, maxChunks |-> input.k,
     minScore |-> 0])

InitRag ==
  /\ tables = NoTable
  /\ IdleStore
  /\ ret = NoRet
  /\ asm = NoAsm
  /\ emb = NoEmb
  /\ inflight = <<>>
  /\ ecb = NoEcb
  /\ ck = NoCk
  /\ fb = NoFb
  /\ ing = NoIng
  /\ md = NoMd
  /\ wc = NoWc
  /\ tool = NoTool
  /\ \E input \in RagInputs :
       rag = [pc |-> "call", input |-> input, retrieved |-> <<>>,
              context |-> EmptyContext, generator |-> 0, answer |-> <<>>,
              out |-> <<>>]

\* RAGQuerySchema.parse(input), outside the try block, then the call of retrieve
RagQueryCall ==
  /\ rag.pc = "call"
  /\ rag' = IF RAGQuerySchemaAccepts(rag.input)
            THEN [rag EXCEPT !.pc = "retrieving"]
            ELSE [rag EXCEPT !.pc = "rejected", !.out = RagResponse("ZodError", <<>>)]
  /\ UNCHANGED <<storeVars, retVars, asmVars, embVars, ckVars, fbVars, ingVars, mdVars,
                 wcVars, toolVars>>

\* retrieve rejects: the catch block answers
RagRetrieveRejects ==
  /\ rag.pc = "retrieving"
  /\ rag' = [rag EXCEPT !.pc = "resolved", !.out = RagResponse("error", <<>>)]
  /\ UNCHANGED <<storeVars, retVars, asmVars, embVars, ckVars, fbVars, ingVars, mdVars,
                 wcVars, toolVars>>

\* retrieve resolves: steps 2 and 3, getModel, and the call of generateText
RagRetrieveResolves(chunks) ==
  /\ rag.pc = "retrieving"
  /\ LET contextResult == RagContext(rag.input, chunks)
         got1 == [rag EXCEPT !.retrieved = chunks]
     IN rag' =
          IF Len(chunks) = 0
          THEN [got1 EXCEPT !.pc = "resolved", !.out = RagResponse("no chunks", <<>>)]
          ELSE IF Len(contextResult.context) = 0
          THEN [got1 EXCEPT !.pc = "resolved", !.out = RagResponse("no context", <<>>)]
          ELSE IF ~checkContentSafety(rag.input.query)
          THEN [got1 EXCEPT !.pc = "resolved", !.context = contextResult,
                            !.out = RagResponse("unsafe query", <<>>)]
          ELSE IF rag.input.modelAlias = "unknown"
          THEN [got1 EXCEPT !.pc = "resolved", !.out = RagResponse("error", <<>>)]
          ELSE [got1 EXCEPT !.pc = "generating", !.context = contextResult,
                            !.generator = 1]
  /\ UNCHANGED <<storeVars, retVars, asmVars, embVars, ckVars, fbVars, ingVars, mdVars,
                 wcVars, toolVars>>

\* generateText settles: steps 5 and 6
RagGenerated(answer) ==
  /\ rag.pc = "generating"
  /\ rag' =
       IF answer.throws
       THEN [rag EXCEPT !.pc = "resolved", !.answer = answer,
                        !.out = RagResponse("error", <<>>)]
       ELSE IF ~checkContentSafety(answer.text)
       THEN [rag EXCEPT !.pc = "resolved", !.answer = answer,
                        !.out = RagResponse("unsafe answer", <<>>)]
       ELSE [rag EXCEPT !.pc = "resolved", !.answer = answer,
               !.out = RagResponse("answer",
                         validCitations(rag.context.chunks, extractCitations(answer)))]
  /\ UNCHANGED <<storeVars, retVars, asmVars, embVars, ckVars, fbVars, ingVars, mdVars,
                 wcVars, toolVars>>

NextRag ==
  \/ RagQueryCall
  \/ RagRetrieveRejects
  \/ \E chunks \in RagRetrievals : RagRetrieveResolves(chunks)
  \/ \E answer \in Answers : RagGenerated(answer)

SpecRag == InitRag /\ [][NextRag]_vars

\* C31: every citation of the response carries the id of a chunk of the
\* context handed to the generator, and a response made without calling the
\* generator has no citations.
C31_CitationsFromContext ==
  rag.pc \in {"resolved", "rejected"} =>
    /\ \A i \in 1..Len(rag.out.citations) :
         \E j \in 1..Len(rag.context.chunks) :
           rag.out.citations[i] = rag.context.chunks[j].id
    /\ rag.generator = 0 => rag.out.citations = <<>>

\* the answer cites a chunk of the context and an id that is in no context, and
\* only the first is reported
C31_Witness ==
  /\ rag.pc = "resolved"
  /\ rag.out.kind = "answer"
  /\ Len(rag.context.chunks) = 2
  /\ {"doc-0001", "doc-0099", "doc.v2-0001"} \subseteq rag.answer.cited
  /\ rag.out.citations = <<"doc-0001">>

\* C40: the generator is called only after retrieval gave at least one chunk,
\* the context is not empty and the query passed the safety check; in every
\* other case the call resolves with an explanatory answer and no citations.
C40_GeneratorGuarded ==
  /\ rag.generator > 0 =>
       /\ Len(rag.retrieved) > 0
       /\ Len(rag.context.context) > 0
       /\ checkContentSafety(rag.input.query)
  /\ (rag.pc \in {"resolved", "rejected"} /\ rag.generator = 0) =>
       /\ rag.pc = "resolved"
       /\ rag.out.kind \in {"no chunks", "no context", "unsafe query", "error"}
       /\ rag.out.citations = <<>>

\* C32: splitIntoChunks terminates for every non-empty document, every
\* strategy, every overlapRatio in [0, 1] and every maxTokens > 0: no call
\* enters a window loop whose index does not advance.
C32_Terminates == ck.pc # "hung"

\* C33: after any sequence of upsertEmbeddings calls that all completed, no
\* two records of the table share an id.
C33_IdsUnique ==
  (up.pc = "done" /\ up.allOk /\ up.extra = 0) =>
    \A id \in Ids : CountId(tables, id) <= 1

\* ------------------------------------------------------------------
\* vectorRetrievalTool.execute
\* ------------------------------------------------------------------
ToolInputs ==
  [filters : Filters, valid : BOOLEAN, k : {1, 20}, tableName : {"chunks", "docs"},
   tokenBudget : {100, 4000}, minScore : {0, 5}, enableFallback : BOOLEAN]

\* what a retrieve call with the options given can resolve with: at least one
\* chunk and at most k, best score first, every score at least minScore
Retrievable(options) ==
  {r \in RagRetrievals :
     /\ Len(r) <= options.k
     /\ \A i \in 1..Len(r) : r[i].score >= options.minScore}

\* assembleContext(chunks, {tokenBudget, includeCitations: true, minScore})
ToolContext(input, chunks) ==
  assembleContext(chunks,
    [tokenBudget |-> input.tokenBudget, reservedTokens |-> 150,
     includeCitations |-> TRUE, maxChunks |-> 20, minScore |-> input.minScore])

ToolResult(t, retrievals, chunks) ==
  [t EXCEPT !.pc = "resolved", !.retrievals = retrievals,
            !.out = ToolContext(t.input, chunks).chunks]

ToolError(t, retrievals) == [t EXCEPT !.pc = "rejected", !.retrievals = retrievals]

InitTool ==
  /\ tables = NoTable
  /\ IdleStore
  /\ ret = NoRet
  /\ asm = NoAsm
  /\ emb = NoEmb
  /\ inflight = <<>>
  /\ ecb = NoEcb
  /\ ck = NoCk
  /\ fb = NoFb
  /\ ing = NoIng
  /\ md = NoMd
  /\ wc = NoWc
  /\ rag = NoRag
  /\ \E input \in ToolInputs :
       /\ input.filters = NoFilters => input.valid
       /\ tool = [pc |-> "call", input |-> input, retrievals |-> <<>>, out |-> <<>>]

\* validateFilters, then the call of retrieveWithFallback or of retrieve
ToolExecute ==
  /\ tool.pc = "call"
  /\ IF tool.input.filters # NoFilters /\ ~tool.input.valid
     THEN /\ tool' = ToolError(tool, <<>>)
          /\ UNCHANGED fb
     ELSE IF tool.input.enableFallback
     THEN /\ tool' = [tool EXCEPT !.pc = "fallback"]
          /\ fb' = [pc |-> "primary", query |-> <<>>, filters |-> tool.input.filters,
                    maxRetries |-> DefaultMaxRetries,
                    relax |-> TRUE, expand |-> FALSE, expansions |-> 0, index |-> 0,
                    attempts |-> <<>>, out |-> <<>>, error |-> <<>>]
     ELSE /\ tool' = [tool EXCEPT !.pc = "retrieve"]
          /\ UNCHANGED fb
  /\ UNCHANGED <<storeVars, retVars, asmVars, embVars, ckVars, ingVars, mdVars, wcVars,
                 ragVars>>

ToolOptions(input) ==
  [tableName |-> input.tableName, k |-> input.k, minScore |-> input.minScore]

\* enableFallback = false: retrieve(query, filters, {tableName, k, minScore})
\* resolves with chunks
ToolRetrieveResolves(chunks) ==
  /\ tool.pc = "retrieve"
  /\ chunks \in Retrievable(ToolOptions(tool.input))
  /\ tool' = ToolResult(tool, <<ToolOptions(tool.input)>>, chunks)
  /\ UNCHANGED <<storeVars, retVars, asmVars, embVars, ckVars, fbVars, ingVars, mdVars,
                 wcVars, ragVars>>

\* enableFallback = false: retrieve rejects
ToolRetrieveRejects ==
  /\ tool.pc = "retrieve"
  /\ tool' = ToolError(tool, <<ToolOptions(tool.input)>>)
  /\ UNCHANGED <<storeVars, retVars, asmVars, embVars, ckVars, fbVars, ingVars, mdVars,
                 wcVars, ragVars>>

AttemptOptions(attempts) == [i \in 1..Len(attempts) |-> attempts[i].options]

\* enableFallback = true: retrieveWithFallback resolved with the chunks of its
\* last attempt
ToolFallbackResolves(chunks) ==
  /\ tool.pc = "fallback"
  /\ fb.pc = "resolved"
  /\ chunks \in Retrievable(fb.attempts[fb.out.chunks].options)
  /\ tool' = ToolResult(tool, AttemptOptions(fb.attempts), chunks)
  /\ UNCHANGED <<storeVars, retVars, asmVars, embVars, ckVars, fbVars, ingVars, mdVars,
                 wcVars, ragVars>>

\* enableFallback = true: retrieveWithFallback rejected
ToolFallbackRejects ==
  /\ tool.pc = "fallback"
  /\ fb.pc = "rejected"
  /\ tool' = ToolError(tool, AttemptOptions(fb.attempts))
  /\ UNCHANGED <<storeVars, retVars, asmVars, embVars, ckVars, fbVars, ingVars, mdVars,
                 wcVars, ragVars>>

NextTool ==
  \/ ToolExecute
  \/ \E chunks \in RagRetrievals : ToolRetrieveResolves(chunks)
  \/ ToolRetrieveRejects
  \/ \E outcome \in PrimaryOutcomes : PrimaryReturns(outcome)
  \/ \E outcome \in FallbackOutcomes : RelaxedReturns(outcome)
  \/ \E chunks \in RagRetrievals : ToolFallbackResolves(chunks)
  \/ ToolFallbackRejects

SpecTool == InitTool /\ [][NextTool]_vars

\* C34: every retrieval the tool triggers searches the table named by its
\* tableName input with the k and minScore of its input, with fallback as
\* without it, and the tool returns at most k chunks.
C34_ToolOptionsHonoured ==
  tool.pc \in {"resolved", "rejected"} =>
    /\ \A i \in 1..Len(tool.retrievals) :
         tool.retrievals[i] = ToolOptions(tool.input)
    /\ Len(tool.out) <= tool.input.k

\* C39: retrieveWithFallback makes at most maxRetries fallback retrieval
\* attempts after the primary attempt.
C39_FallbackAttemptsBounded ==
  Len(fb.attempts) >= 1 => Len(fb.attempts) - 1 <= fb.maxRetries

\* C35: retrieve is read-only with respect to the vector store: no step of a
\* retrieve call changes the set of tables or the records of a table.
C35_RetrieveReadOnly == [][tables' = tables]_vars

\* C36: in the summary of a run with embedAndStore, storedChunks is the number
\* of records the run persisted in the table, and
\* storedChunks <= embeddedChunks <= totalChunks.
C36_StoredChunksIsPersisted ==
  (ing.pc = "returned" /\ ing.embedAndStore) =>
    /\ ing.storedChunks = RowCount(tables)
    /\ ing.storedChunks <= ing.embeddedChunks
    /\ ing.embeddedChunks <= ing.totalChunks

\* C38: an HTTP error answer that is neither 429 nor 5xx makes the provider
\* call reject after that attempt, without a backoff delay and without a
\* further request.
C38_ClientErrorNotRetried ==
  \A slot \in 1..Len(inflight) :
    inflight[slot].answer = "http4xx" => inflight[slot].pc = "rejected"

\* the chunks of the batches that were not skipped
C37_Kept ==
  {c \in 1..ecb.n : (((c - 1) \div ChunksBatchSize) * ChunksBatchSize) \notin ecb.skipped}

====
